---- MODULE Spec2Model ----
(***************************************************************************)
(* Model of the asset repository: the Repository coordinator               *)
(* (lib/repository.js), the in-memory backend                              *)
(* (lib/backends/in-memory/repository.js) and the path utilities           *)
(* (lib/utils.js).                                                         *)
(*                                                                         *)
(* A string is a sequence of one-character strings, so that lastIndexOf,   *)
(* slice and split act on it as they do in the code.  Every public         *)
(* operation runs as a chain of "ticks": one tick is the code that runs    *)
(* synchronously between two asynchronous boundaries (process.nextTick /   *)
(* setTimeout in _doDelay, or a stream event).  Ticks of different         *)
(* operations interleave freely.                                           *)
(***************************************************************************)
EXTENDS Integers, Sequences, FiniteSets, TLC

\* ------------------------------------------------------------------ bounds
\* the clock stops advancing at MaxTime clock steps
MaxTime == 1
\* the longest content has MaxChunks chunks
MaxChunks == 2
\* the clock of a watched transfer stops after MaxSpan steps
MaxSpan == 6
\* the longest string handed to the path utilities has MaxLen characters
MaxLen == 4
\* the longest history of subscribe and unsubscribe calls has MaxCalls calls
MaxCalls == 3

\* ------------------------------------------------------------ path utilities
sep == "/"

\* the value null returned by getParentPath
Null == <<"<null>">>

\* String(x): new String(path) in _getEntity turns null into "null"
ToStr(p) == IF p = Null THEN <<"n", "u", "l", "l">> ELSE p

\* String.prototype.lastIndexOf, 1-based; 0 stands for -1
LastIndexOf(p, c) ==
  IF \E i \in 1..Len(p) : p[i] = c
  THEN CHOOSE i \in 1..Len(p) : p[i] = c /\ \A j \in (i+1)..Len(p) : p[j] # c
  ELSE 0

\* String.prototype.indexOf, 1-based; 0 stands for -1
IndexOf(p, c) ==
  IF \E i \in 1..Len(p) : p[i] = c
  THEN CHOOSE i \in 1..Len(p) : p[i] = c /\ \A j \in 1..(i-1) : p[j] # c
  ELSE 0

getPathName(path) ==
  LET pos == LastIndexOf(path, sep)
  IN  IF pos = 0 THEN path ELSE SubSeq(path, pos + 1, Len(path))

\* the slice taken also when the separator is the first character
getParentPath_sliceOnly(path) ==
  LET pos == LastIndexOf(path, sep)
  IN  IF pos = 0 THEN Null ELSE SubSeq(path, 1, pos - 1)

getParentPath(path) ==
  LET pos == LastIndexOf(path, sep)
  IN  IF pos = 0 THEN Null
      ELSE IF pos = 1 THEN <<sep>>
      ELSE SubSeq(path, 1, pos - 1)

\* no path taken for the root
isRoot_never(path) == FALSE

isRoot(path) == path = <<sep>>

\* String.prototype.split(sep): the segments between separators, empty ones
\* included
RECURSIVE Split(_)
Split(p) ==
  LET i == IndexOf(p, sep)
  IN  IF i = 0 THEN <<p>>
      ELSE <<SubSeq(p, 1, i - 1)>> \o Split(SubSeq(p, i + 1, Len(p)))

\* ------------------------------------------------------------ constants.js
DIR_TYPE == "directory"
ASSET_TYPE == "asset"

\* ------------------------------------------------------------ error values
NoErr == "undefined"
ErrCreateRoot == "cannot create root directory"
ErrDeleteRoot == "cannot delete root directory"
ErrDirExists == "directory to create already exists"
ErrAssetExists == "asset to create already exists"
ErrNoPath == "path does not exist"
ErrListNotDir == "path to list is not a directory"
ErrDeleteNotDir == "path to delete is not a directory"
ErrDirBeneath == "cannot create directory beneath entity type"
ErrAssetBeneath == "cannot create asset beneath entity type"
ErrRetrieveNotAsset == "path to retrieve is not an asset"
ErrUpdateNotAsset == "path to update is not an asset"
ErrDeleteNotAsset == "path to delete is not an asset"
\* errors raised by the store
ErrNotFound == "not found"
ErrNoChildren == "not found - not an entity that has children"
ErrStoreNotAsset == "asset to update is not an asset"
\* an error with which a store other than the in-memory one answers
BackendError == "backend error"

\* what a stream hands to its 'error' listeners
StreamErrors == {"read stream error", "write stream error"}
\* an exception thrown out of a callback (TypeError)
Thrown == "TypeError"

\* the errors with which the coordinator reports a failed pre-condition
PreconditionErrors ==
  { ErrCreateRoot, ErrDeleteRoot, ErrDirExists, ErrAssetExists, ErrNoPath,
    ErrListNotDir, ErrDeleteNotDir, ErrDirBeneath, ErrAssetBeneath,
    ErrRetrieveNotAsset, ErrUpdateNotAsset, ErrDeleteNotAsset }

\* --------------------------------------------------- in-memory store: tree
\* The store is a tree of nested objects.  It is kept as a function from
\* the key of a node (the sequence of child names that leads to it from the
\* root object) to the node's own fields; hasChildren tells whether the
\* object has a children map.
RootKey == <<>>
NoKey == << <<"<none>">> >>
NoName == <<"<none>">>

\* a directory object without its created time
_getDirectoryInfo_noCreated(path, now) ==
  [ name |-> getPathName(path), type |-> DIR_TYPE, hasChildren |-> TRUE,
    created |-> 0, modified |-> 0, content |-> <<>>,
    checkedOut |-> FALSE, checkedOutBy |-> "" ]

_getDirectoryInfo(path, now) ==
  [ name |-> getPathName(path), type |-> DIR_TYPE, hasChildren |-> TRUE,
    created |-> now, modified |-> 0, content |-> <<>>,
    checkedOut |-> FALSE, checkedOutBy |-> "" ]

_getAssetInfo(path, now) ==
  [ name |-> getPathName(path), type |-> ASSET_TYPE, hasChildren |-> FALSE,
    created |-> now, modified |-> now, content |-> <<>>,
    checkedOut |-> FALSE, checkedOutBy |-> "" ]

IsPrefix(k, l) == Len(k) <= Len(l) /\ SubSeq(l, 1, Len(k)) = k

\* the traversal of _getEntity over the split names
RECURSIVE Walk(_, _, _, _, _)
Walk(t, names, cur, parent, cname) ==
  IF names = <<>>
  THEN [err |-> NoErr, key |-> cur, parent |-> parent, name |-> cname]
  ELSE LET n == Head(names)
       IN  IF n = <<>> THEN Walk(t, Tail(names), cur, parent, cname)
           ELSE IF ~t[cur].hasChildren
             THEN [err |-> ErrNoChildren, key |-> NoKey, parent |-> NoKey, name |-> NoName]
           ELSE IF Append(cur, n) \notin DOMAIN t
             THEN [err |-> ErrNotFound, key |-> NoKey, parent |-> NoKey, name |-> NoName]
           ELSE Walk(t, Tail(names), Append(cur, n), cur, n)

_getEntity(t, path) ==
  IF path = <<sep>>
  THEN [err |-> NoErr, key |-> RootKey, parent |-> NoKey, name |-> NoName]
  ELSE Walk(t, Split(ToStr(path)), RootKey, NoKey, NoName)

\* parent.children[name] = entity : the subtree that hung there is detached
Attach(t, key, entity) ==
  [k \in {l \in DOMAIN t : ~IsPrefix(key, l)} \cup {key} |->
     IF k = key THEN entity ELSE t[k]]

\* the node removed and what hung beneath it left in place
Detach_nodeOnly(t, key) == [k \in DOMAIN t \ {key} |-> t[k]]

\* delete parent.children[name]
Detach(t, key) == [k \in {l \in DOMAIN t : ~IsPrefix(key, l)} |-> t[k]]

\* the result of a store mutation: err, or Thrown when the code raises
_createEntity(t, path, entity) ==
  LET p == _getEntity(t, getParentPath(path))
      name == getPathName(path)
  IN  IF p.err # NoErr THEN [err |-> p.err, tree |-> t]
      ELSE IF ~t[p.key].hasChildren THEN [err |-> Thrown, tree |-> t]
      ELSE [err |-> NoErr, tree |-> Attach(t, Append(p.key, name), entity)]

\* the entity the path resolves to is removed, instead of the child of the
\* parent path that bears the last name of the path
_deleteEntity_resolved(t, path) ==
  LET e == _getEntity(t, path)
  IN  IF e.err # NoErr THEN [err |-> e.err, tree |-> t]
      ELSE [err |-> NoErr, tree |-> Detach(t, e.key)]

_deleteEntity(t, path) ==
  LET p == _getEntity(t, getParentPath(path))
      name == getPathName(path)
  IN  IF p.err # NoErr THEN [err |-> p.err, tree |-> t]
      ELSE IF ~t[p.key].hasChildren THEN [err |-> Thrown, tree |-> t]
      ELSE [err |-> NoErr, tree |-> Detach(t, Append(p.key, name))]

\* Path.join as used by joinPath: the non-empty arguments joined by "/" and
\* normalised.  Resolve walks the segments: empty and "." segments are
\* dropped, ".." takes back the segment before it (above the root it is
\* dropped, at the start of a relative path it is kept)
RECURSIVE Resolve(_, _, _)
Resolve(segs, stack, abs) ==
  IF segs = <<>> THEN stack
  ELSE LET n == Head(segs)
       IN  IF n = <<>> \/ n = <<".">> THEN Resolve(Tail(segs), stack, abs)
           ELSE IF n # <<".", ".">> THEN Resolve(Tail(segs), Append(stack, n), abs)
           ELSE IF stack # <<>> /\ stack[Len(stack)] # <<".", ".">>
             THEN Resolve(Tail(segs), SubSeq(stack, 1, Len(stack) - 1), abs)
           ELSE IF abs THEN Resolve(Tail(segs), stack, abs)
           ELSE Resolve(Tail(segs), Append(stack, n), abs)

\* segments joined by the separator
RECURSIVE Glue(_)
Glue(segs) ==
  IF segs = <<>> THEN <<>>
  ELSE IF Len(segs) = 1 THEN segs[1]
  ELSE segs[1] \o <<sep>> \o Glue(Tail(segs))

\* Path.normalize of a non-empty path: a trailing separator is kept, the
\* empty relative result is "."
normalize(p) ==
  LET abs == p[1] = sep
      trail == p[Len(p)] = sep
      body == Glue(Resolve(Split(p), <<>>, abs))
      named == IF body = <<>> /\ ~abs THEN <<".">> ELSE body
      closed == IF named # <<>> /\ trail THEN Append(named, sep) ELSE named
  IN  IF abs THEN <<sep>> \o closed ELSE closed

joinPath(a, b) ==
  LET joined == IF a = <<>> THEN b
                ELSE IF b = <<>> THEN a
                ELSE a \o <<sep>> \o b
  IN  IF joined = <<>> THEN <<".">> ELSE normalize(joined)

\* --------------------------------------------------- in-memory store: info
NoInfo == [ name |-> NoName, type |-> "undefined", created |-> 0, modified |-> 0,
            size |-> 0, checkedOut |-> FALSE, checkedOutBy |-> "" ]

RECURSIVE TotalLength(_)
TotalLength(content) ==
  IF content = <<>> THEN 0 ELSE Len(Head(content)) + TotalLength(Tail(content))

\* a directory's info carries name, created and type only
_infoFromEntity(entity) ==
  IF entity.type = ASSET_TYPE
  THEN [ name |-> entity.name, type |-> entity.type, created |-> entity.created,
         modified |-> entity.modified, size |-> TotalLength(entity.content),
         checkedOut |-> entity.checkedOut, checkedOutBy |-> entity.checkedOutBy ]
  ELSE [ name |-> entity.name, type |-> entity.type, created |-> entity.created,
         modified |-> 0, size |-> 0, checkedOut |-> FALSE, checkedOutBy |-> "" ]

_getInfo(t, path) ==
  LET e == _getEntity(t, path)
  IN  IF e.err # NoErr THEN [err |-> e.err, info |-> NoInfo]
      ELSE [err |-> NoErr, info |-> _infoFromEntity(t[e.key])]

\* the keys of the children map of the node at key
ChildKeys(t, key) ==
  IF t[key].hasChildren
  THEN {k \in DOMAIN t : Len(k) = Len(key) + 1 /\ IsPrefix(key, k)}
  ELSE {}

RECURSIVE SeqOfSet(_)
SeqOfSet(S) ==
  IF S = {} THEN <<>>
  ELSE LET x == CHOOSE y \in S : TRUE IN <<x>> \o SeqOfSet(S \ {x})

\* _list: every child is looked up again by the path joined from its name
_list(t, path) ==
  LET e == _getEntity(t, path)
  IN  IF e.err # NoErr THEN [err |-> e.err, list |-> <<>>]
      ELSE IF t[e.key].type # DIR_TYPE THEN [err |-> ErrListNotDir, list |-> <<>>]
      ELSE LET kids == SeqOfSet(ChildKeys(t, e.key))
               res == [i \in 1..Len(kids) |-> _getInfo(t, joinPath(path, t[kids[i]].name))]
           IN  IF \E i \in 1..Len(kids) : res[i].err # NoErr
               THEN [err |-> res[CHOOSE i \in 1..Len(kids) : res[i].err # NoErr].err,
                     list |-> <<>>]
               ELSE [err |-> NoErr, list |-> [i \in 1..Len(kids) |-> res[i].info]]

\* String.prototype.match with a RegExp built from a pattern in which every
\* character stands for itself, except "." which stands for any character
MatchAt(name, pat, off) ==
  /\ off + Len(pat) <= Len(name)
  /\ \A i \in 1..Len(pat) : pat[i] = "." \/ pat[i] = name[off + i]

Matches(name, pat) == \E off \in 0..Len(name) : MatchAt(name, pat, off)

\* _findAssets: the search descends through entities of directory type and
\* collects every other entity whose name matches
Searched(t, key) ==
  \A n \in 0..(Len(key) - 1) : LET a == SubSeq(key, 1, n)
                               IN  t[a].type = DIR_TYPE /\ t[a].hasChildren

\* a search that does not descend below the root
_findAssets_shallow(t, pat) ==
  LET hits == {k \in DOMAIN t : /\ Len(k) = 1
                                /\ t[k].type # DIR_TYPE
                                /\ Matches(t[k].name, pat)}
      ks == SeqOfSet(hits)
  IN  [i \in 1..Len(ks) |-> _infoFromEntity(t[ks[i]])]

_findAssets(t, pat) ==
  LET hits == {k \in DOMAIN t : /\ k # RootKey
                                /\ Searched(t, k)
                                /\ t[k].type # DIR_TYPE
                                /\ Matches(t[k].name, pat)}
      ks == SeqOfSet(hits)
  IN  [i \in 1..Len(ks) |-> _infoFromEntity(t[ks[i]])]

\* the new content added to the content the asset had
updateContent_append(entity, newContent) ==
  [entity EXCEPT !.content = @ \o newContent]

\* entity.updateContent(newContent)
updateContent(entity, newContent) == [entity EXCEPT !.content = newContent]

\* _updateAsset: every key of the given info is written into the entity
_updateAsset(t, path, info) ==
  LET e == _getEntity(t, path)
  IN  IF e.err # NoErr THEN [err |-> e.err, tree |-> t]
      ELSE IF t[e.key].type # ASSET_TYPE THEN [err |-> ErrStoreNotAsset, tree |-> t]
      ELSE [err |-> NoErr,
            tree |-> [t EXCEPT ![e.key] =
                        [@ EXCEPT !.name = info.name, !.type = info.type,
                                  !.created = info.created, !.modified = info.modified,
                                  !.checkedOut = info.checkedOut,
                                  !.checkedOutBy = info.checkedOutBy]]]

\* ============================================================ coordinator
EMIT_DELAY == 1000
TRANSFER_TYPE_CREATE == "create"
TRANSFER_TYPE_UPDATE == "update"
TRANSFER_TYPE_READ == "read"

VARIABLES
  tree,         \* InMemoryRepository.repository
  subscribers,  \* Repository.subscribers: the ids whose entry is true
  lastEmit,     \* Repository.lastEmit: key -> [timestamp, progress]
  now,          \* new Date().getTime()
  ops,          \* the public operations in flight, one per slot
  last,         \* what the operation that finished last did
  probe,        \* a string handed to a path utility
  answer,       \* what the path utility returned for it
  log           \* the subscribe and unsubscribe calls made, in order

vars == <<tree, subscribers, lastEmit, now, ops, last, probe, answer, log>>

\* ------------------------------------------------------------------ inputs
Slots == {1, 2}
Undefined == "undefined"
SubIds == {"s1"}
\* options.subscriberId: absent, empty or an id
OptSubs == {Undefined, "", "s1"}
PathInputs == { <<"/">>, <<"/", "a">>, <<"/", "a", "/", "b">> }
\* the clock starts at a positive time and advances in steps of ClockSteps
Epoch == 1
ClockSteps == {600}

Chunk(i) == IF i % 2 = 1 THEN <<i>> ELSE <<i, i>>
ContentOf(n) == [i \in 1..n |-> Chunk(i)]
ContentInputs == {ContentOf(n) : n \in {0, MaxChunks}}
PatchInputs == { [checkedOut |-> TRUE, checkedOutBy |-> "u"] }
TermInputs == { <<"a">>, <<".">> }

\* --------------------------------------------------------- subscriptions
subscribe(subs, subscriberId) == subs \cup {subscriberId}

\* subscribers is a plain object ({}): a lookup of a name it does not own
\* finds what Object.prototype holds under that name
ObjectPrototype == {"constructor", "toString"}

\* this.subscribers[subscriberId] ? true : false
isSubscribed(subs, subscriberId) ==
  subscriberId \in subs \/ subscriberId \in ObjectPrototype

unsubscribe(subs, subscriberId) ==
  IF isSubscribed(subs, subscriberId) THEN subs \ {subscriberId} ELSE subs

\* the callback invoked whoever is subscribed
emitCallback_always(subs, subscriberId) == TRUE

\* emitCallback: TRUE when the callback is invoked
emitCallback(subs, subscriberId) ==
  (subscriberId = Undefined \/ subscriberId = "") \/ isSubscribed(subs, subscriberId)

\* ------------------------------------------------------ operation records
Res0 == [err |-> NoErr, ex |-> FALSE, info |-> NoInfo, list |-> <<>>,
         content |-> <<>>, attached |-> FALSE]
Out0 == [err |-> NoErr, kind |-> "none", ex |-> FALSE, info |-> NoInfo, list |-> <<>>,
         data |-> <<>>]
Snap0 == [type |-> "none", parent |-> "none", info |-> NoInfo]
Follows0 == [kind |-> "idle", path |-> <<>>, content |-> <<>>, failed |-> FALSE]
NoPatch == [none |-> TRUE]

Op0 ==
  [ kind |-> "idle", path |-> <<>>, sub |-> Undefined, hasCb |-> TRUE,
    content |-> <<>>, patch |-> NoPatch, term |-> <<>>,
    pc |-> "done", phase |-> "-", res |-> Res0,
    remaining |-> <<>>, written |-> <<>>, totalRead |-> 0, rate |-> 0,
    startTime |-> 0, callbackSent |-> FALSE,
    \* what happened, kept until the slot is used again
    fate |-> "-", cbCount |-> 0, dropCount |-> 0, out |-> Out0,
    events |-> <<>>, eventAt |-> 0, calls |-> {}, changed |-> FALSE,
    storeErr |-> NoErr, storeErrAt |-> "-", evInfo |-> NoInfo,
    snap |-> Snap0, solo |-> TRUE, follows |-> Follows0 ]

\* the primitives of the store that change it
Mutators == {"_createDirectory", "_deleteDirectory", "_getAssetWriteStream",
             "_updateAssetInfo", "_deleteAsset"}

TypeAt(t, path) ==
  LET e == _getEntity(t, path)
  IN  IF e.err # NoErr THEN "none" ELSE t[e.key].type

\* what the tree holds at the path and at its parent when the call is made
Snap(t, path) ==
  [type |-> TypeAt(t, path), parent |-> TypeAt(t, getParentPath(path)),
   info |-> _getInfo(t, path).info]

\* the path an exists/getInfo check is about: the parent path in phase "par"
CheckPath(op) == IF op.phase = "par" THEN getParentPath(op.path) ELSE op.path

\* the locals of a finished operation are gone
Finished(op) ==
  [op EXCEPT !.pc = "done", !.res = Res0, !.remaining = <<>>, !.written = <<>>,
             !.totalRead = 0, !.rate = 0, !.startTime = 0]

\* callback(err, ...) reached through emitCallback
Settle(subs, op, out) ==
  IF emitCallback(subs, op.sub)
  THEN [op EXCEPT !.fate = "delivered", !.cbCount = @ + 1, !.out = out]
  ELSE [op EXCEPT !.fate = "dropped", !.dropCount = @ + 1, !.out = out]

Deliver(subs, op, out) == Finished(Settle(subs, op, out))

Fail(subs, op, err) == Deliver(subs, op, [Out0 EXCEPT !.err = err])

\* the callback of an inner exists/getInfo was not invoked: nothing follows
Stall(op) == [Finished(op) EXCEPT !.fate = "stalled", !.dropCount = @ + 1]

\* an exception left the callback
Throw(op, who) == [Finished(op) EXCEPT !.fate = who]

\* _sendCallback without its callbackSent flag
WriteSendCallback_unguarded(subs, op, out) ==
  IF op.hasCb
  THEN [Deliver(subs, op, out) EXCEPT !.callbackSent = TRUE]
  ELSE [Finished(op) EXCEPT !.fate = "nocallback"]

\* _sendCallback of _getWriteStream
WriteSendCallback(subs, op, out) ==
  IF op.hasCb /\ ~op.callbackSent
  THEN [Deliver(subs, op, out) EXCEPT !.callbackSent = TRUE]
  ELSE [Finished(op) EXCEPT !.fate = IF op.hasCb THEN @ ELSE "nocallback"]

\* this._exists(path, options, cb): the lookup is made at once, the answer
\* comes after _doDelay
Call_exists(op, phase, t) ==
  LET o == [op EXCEPT !.phase = phase]
  IN  [o EXCEPT !.pc = "_exists",
                !.res = [Res0 EXCEPT !.ex = (_getEntity(t, CheckPath(o)).err = NoErr)],
                !.calls = @ \cup {"_exists"}]

Call_getInfo(op, t) ==
  LET r == _getInfo(t, CheckPath(op))
  IN  [op EXCEPT !.pc = "_getInfo",
                 !.res = [Res0 EXCEPT !.err = r.err, !.info = r.info],
                 !.calls = @ \cup {"_getInfo"}]

R(op, t) == [op |-> op, tree |-> t]

\* if (err)
PathTaken_errOnly(err, exists) == err # NoErr

\* if (err || exists): the path of a create is taken
PathTaken(err, exists) == err # NoErr \/ exists

\* if (err)
NotDirectory_errOnly(err, info) == err # NoErr

\* if (err || info.type !== constants.DIR_TYPE)
NotDirectory(err, info) == err # NoErr \/ info.type # DIR_TYPE

\* if (err)
NotAsset_errOnly(err, info) == err # NoErr

\* if (err || info.type !== constants.ASSET_TYPE)
NotAsset(err, info) == err # NoErr \/ info.type # ASSET_TYPE

\* _sendCallback(err) without the return: the delete goes on to the store
Rejected_noReturn(subs, op, err, t) ==
  IF op.kind \in {"deleteDirectory", "deleteAsset"}
  THEN LET r == _deleteEntity(t, op.path)
       IN  R([Fail(subs, op, err) EXCEPT !.calls = @ \cup {"_" \o op.kind},
                                         !.changed = r.tree # t], r.tree)
  ELSE R(Fail(subs, op, err), t)

\* _sendCallback(err); return;  with nothing delegated to the store
Rejected(subs, op, err, t) == R(Fail(subs, op, err), t)

InfoOut(err, info) ==
  IF err # NoErr THEN [Out0 EXCEPT !.err = err]
  ELSE [Out0 EXCEPT !.kind = "info", !.info = info]

\* the keys the patch does not name left without their fetched value
UpdatedInfo_patchOnly(info, patch) ==
  [key \in DOMAIN info |-> IF key \in DOMAIN patch THEN patch[key] ELSE NoInfo[key]]

\* updateAssetInfo: every key of the fetched info, the given value where the
\* patch has one
UpdatedInfo(info, patch) ==
  [key \in DOMAIN info |-> IF key \in DOMAIN patch THEN patch[key] ELSE info[key]]

ReadKinds == {"getAsset", "getAssetThumbnail", "getAssetPreview"}

\* what the caller of getInfo does with (err, info), up to the next call of
\* the store
AfterGetInfo(subs, op, err, info, t, clock) ==
  CASE op.kind = "getInfo" ->
         R(Deliver(subs, op, InfoOut(err, info)), t)
    [] op.kind = "list" ->
         IF NotDirectory(err, info)
         THEN Rejected(subs, op, IF err # NoErr THEN err ELSE ErrListNotDir, t)
         ELSE LET e == _getEntity(t, op.path)
                  o == [op EXCEPT !.phase = "store", !.calls = @ \cup {"_list"}]
              IN  \* _list answers at once when it does not find the directory
                  IF e.err # NoErr THEN R(Fail(subs, o, e.err), t)
                  ELSE IF t[e.key].type # DIR_TYPE THEN R(Fail(subs, o, ErrListNotDir), t)
                  ELSE LET r == _list(t, op.path)
                       IN  R([o EXCEPT !.pc = "_list",
                                       !.res = [Res0 EXCEPT !.err = r.err, !.list = r.list]], t)
    [] op.kind = "createDirectory" /\ op.phase = "par" ->
         IF NotDirectory(err, info)
         THEN Rejected(subs, op, IF err # NoErr THEN err ELSE ErrDirBeneath, t)
         ELSE LET r == _createEntity(t, op.path, _getDirectoryInfo(op.path, clock))
                  o == [op EXCEPT !.phase = "store", !.calls = @ \cup {"_createDirectory"}]
              IN  IF r.err = Thrown THEN R(Throw(o, "storeThrown"), t)
                  ELSE R([o EXCEPT !.pc = "_createDirectory",
                                   !.res = [Res0 EXCEPT !.err = r.err],
                                   !.changed = @ \/ r.tree # t], r.tree)
    [] op.kind = "deleteDirectory" /\ op.phase = "pre" ->
         IF NotDirectory(err, info)
         THEN Rejected(subs, op, IF err # NoErr THEN err ELSE ErrDeleteNotDir, t)
         ELSE R([op EXCEPT !.phase = "store", !.pc = "_deleteDirectory", !.res = Res0,
                           !.calls = @ \cup {"_deleteDirectory"}], t)
    [] op.kind = "deleteAsset" /\ op.phase = "pre" ->
         IF NotAsset(err, info)
         THEN Rejected(subs, op, IF err # NoErr THEN err ELSE ErrDeleteNotAsset, t)
         ELSE R([op EXCEPT !.phase = "store", !.pc = "_deleteAsset", !.res = Res0,
                           !.calls = @ \cup {"_deleteAsset"}], t)
    [] op.kind \in ReadKinds ->
         IF NotAsset(err, info)
         THEN Rejected(subs, op, IF err # NoErr THEN err ELSE ErrRetrieveNotAsset, t)
         ELSE LET e == _getEntity(t, op.path)
              IN  R([op EXCEPT !.phase = "store", !.pc = "_getAsset",
                               !.res = [Res0 EXCEPT !.err = e.err, !.info = info,
                                          !.content = IF e.err = NoErr THEN t[e.key].content
                                                      ELSE <<>>,
                                          !.attached = (e.err = NoErr)],
                               !.calls = @ \cup {"_getAsset"}], t)
    [] op.kind = "createAsset" /\ op.phase = "par" ->
         IF NotDirectory(err, info)
         THEN R(WriteSendCallback(subs, op,
                  [Out0 EXCEPT !.err = IF err # NoErr THEN err ELSE ErrAssetBeneath]), t)
         ELSE R([op EXCEPT !.phase = "store", !.pc = "_getAssetWriteStream",
                           !.res = [Res0 EXCEPT !.info =
                                      [NoInfo EXCEPT !.name = getPathName(op.path),
                                                     !.type = ASSET_TYPE]],
                           !.calls = @ \cup {"_getAssetWriteStream"}], t)
    [] op.kind = "updateAsset" /\ op.phase = "pre" ->
         IF NotAsset(err, info)
         THEN R(WriteSendCallback(subs, op,
                  [Out0 EXCEPT !.err = IF err # NoErr THEN err ELSE ErrUpdateNotAsset]), t)
         ELSE R([op EXCEPT !.phase = "store", !.pc = "_getAssetWriteStream",
                           !.res = [Res0 EXCEPT !.info = info],
                           !.calls = @ \cup {"_getAssetWriteStream"}], t)
    [] op.kind = "updateAssetInfo" /\ op.phase = "pre" ->
         IF NotAsset(err, info)
         THEN Rejected(subs, op, IF err # NoErr THEN err ELSE ErrUpdateNotAsset, t)
         ELSE LET r == _updateAsset(t, op.path, UpdatedInfo(info, op.patch))
              IN  R([op EXCEPT !.phase = "store", !.pc = "_updateAssetInfo",
                               !.res = [Res0 EXCEPT !.err = r.err],
                               !.calls = @ \cup {"_updateAssetInfo"},
                               !.changed = @ \/ r.tree # t], r.tree)
    [] op.kind \in {"createAsset", "updateAsset"} /\ op.phase = "post" ->
         R(WriteSendCallback(subs, op, InfoOut(err, info)), t)
    [] op.kind \in {"createDirectory", "updateAssetInfo"} /\ op.phase = "post" ->
         R(Deliver(subs, op, InfoOut(err, info)), t)

\* ------------------------------------------------------ progress throttle
Key(path, transferType) == <<path, transferType>>

\* a window of no length
Elapsed_noWindow(le, key, clock) ==
  \/ key \notin DOMAIN le
  \/ le[key].timestamp = 0
  \/ clock - le[key].timestamp > 0

\* !lastEmit || now - lastEmit > EMIT_DELAY
Elapsed(le, key, clock) ==
  \/ key \notin DOMAIN le
  \/ le[key].timestamp = 0
  \/ clock - le[key].timestamp > EMIT_DELAY

\* the comparison with the recorded progress left out
_shouldEmitProgress_anyData(le, clock, path, transferType, force, hasData, progressData) ==
  Elapsed(le, Key(path, transferType), clock) \/ force

\* the force argument left out
_shouldEmitProgress_unforced(le, clock, path, transferType, force, hasData, progressData) ==
  LET key == Key(path, transferType)
      known == key \in DOMAIN le
      isDifferent == IF known /\ hasData
                     THEN \/ le[key].progress.read # progressData.read
                          \/ le[key].progress.rate # progressData.rate
                     ELSE TRUE
  IN  isDifferent /\ Elapsed(le, key, clock)

\* hasData: a progressData argument was passed (otherwise it is {} and
\* differs from every record)
_shouldEmitProgress(le, clock, path, transferType, force, hasData, progressData) ==
  LET key == Key(path, transferType)
      known == key \in DOMAIN le
      isDifferent == IF known /\ hasData
                     THEN \/ le[key].progress.read # progressData.read
                          \/ le[key].progress.rate # progressData.rate
                     ELSE TRUE
  IN  isDifferent /\ (Elapsed(le, key, clock) \/ force)

\* the event emitted without asking emitCallback
_emitTransferProgress_ungated(subs, le, clock, op, transferType, progress, force, reset) ==
  LET key == Key(op.path, transferType)
      should == _shouldEmitProgress(le, clock, op.path, transferType, force, TRUE, progress)
      le1 == IF should
             THEN [k \in DOMAIN le \cup {key} |->
                     IF k = key THEN [timestamp |-> clock, progress |-> progress]
                     ELSE le[k]]
             ELSE le
      le2 == IF reset THEN [k \in DOMAIN le1 \ {key} |-> le1[k]] ELSE le1
  IN  [le |-> le2, emitted |-> should, at |-> clock]

\* the record of the key kept when reset is asked for
_emitTransferProgress_noReset(subs, le, clock, op, transferType, progress, force, reset) ==
  LET key == Key(op.path, transferType)
      should == _shouldEmitProgress(le, clock, op.path, transferType, force, TRUE, progress)
      le1 == IF should
             THEN [k \in DOMAIN le \cup {key} |->
                     IF k = key THEN [timestamp |-> clock, progress |-> progress]
                     ELSE le[k]]
             ELSE le
  IN  [le |-> le1, emitted |-> should /\ emitCallback(subs, op.sub), at |-> clock]

\* the new lastEmit and whether a listener received the event
_emitTransferProgress(subs, le, clock, op, transferType, progress, force, reset) ==
  LET key == Key(op.path, transferType)
      should == _shouldEmitProgress(le, clock, op.path, transferType, force, TRUE, progress)
      le1 == IF should
             THEN [k \in DOMAIN le \cup {key} |->
                     IF k = key THEN [timestamp |-> clock, progress |-> progress]
                     ELSE le[k]]
             ELSE le
      le2 == IF reset THEN [k \in DOMAIN le1 \ {key} |-> le1[k]] ELSE le1
  IN  [le |-> le2, emitted |-> should /\ emitCallback(subs, op.sub), at |-> clock]

Progress(transferType, read, rate) == [type |-> transferType, read |-> read, rate |-> rate]

\* every update transfer typed as a create
TransferType_create(op) ==
  IF op.kind \in {"createAsset", "updateAsset"} THEN TRANSFER_TYPE_CREATE
  ELSE TRANSFER_TYPE_READ

TransferType(op) ==
  IF op.kind = "createAsset" THEN TRANSFER_TYPE_CREATE
  ELSE IF op.kind = "updateAsset" THEN TRANSFER_TYPE_UPDATE
  ELSE TRANSFER_TYPE_READ

\* Math.round(totalRead / elapsed) || 1
Rate(totalRead, elapsed) ==
  LET r == (2 * totalRead + elapsed) \div (2 * elapsed)
  IN  IF r = 0 THEN 1 ELSE r

WithEvent(op, e, progress) ==
  IF e.emitted THEN [op EXCEPT !.events = Append(@, progress), !.eventAt = e.at] ELSE op

\* the info object that the events of a transfer carry: the fetched info of a
\* read or an update, {name, type} for a create
WithInfo(op) == [op EXCEPT !.evInfo = op.res.info]

\* ------------------------------------------------------------ state changes
NoAnswer == [fn |-> "-", path |-> <<>>, flag |-> FALSE]

\* the repository after construction
Constructed ==
  /\ tree = [k \in {RootKey} |-> _getDirectoryInfo(<<sep>>, Epoch)]
  /\ subscribers = {}
  /\ lastEmit = <<>>
  /\ now = Epoch
  /\ ops = [s \in Slots |-> Op0]
  /\ last = Follows0
  /\ log = <<>>

Init ==
  /\ Constructed
  /\ probe = <<>>
  /\ answer = NoAnswer

Idle(s) == ops[s].pc = "done"

\* what is remembered of a finished operation: it changed the store with no
\* other operation in flight and reported success, or it was a transfer that
\* one of its streams ended with an error
Summary(op) ==
  IF op.solo /\ op.fate = "delivered" /\ op.out.err = NoErr /\ op.calls \cap Mutators # {}
  THEN [kind |-> op.kind, path |-> op.path, content |-> op.content, failed |-> FALSE]
  ELSE IF op.solo /\ op.storeErr \in StreamErrors
  THEN [kind |-> op.kind, path |-> op.path, content |-> op.content, failed |-> TRUE]
  ELSE Follows0

\* the operations that only look at the store
Observers == {"exists", "getInfo", "list", "getAsset", "findAssets"}

NewOp(s, kind, path, sub) ==
  [Op0 EXCEPT !.kind = kind, !.path = path, !.sub = sub, !.pc = "start",
              !.snap = Snap(tree, path),
              !.solo = \A t \in Slots \ {s} : Idle(t),
              !.follows = IF kind \in Observers /\ \A t \in Slots \ {s} : Idle(t)
                          THEN last ELSE Follows0]

\* the key _getEntity reaches for a path: its non-empty segments
KeyOf(path) == SelectSeq(Split(ToStr(path)), LAMBDA n : n # <<>>)

\* the key under which _createEntity and _deleteEntity work
TargetKey(path) == Append(KeyOf(getParentPath(path)), getPathName(path))

Replacers == {"createDirectory", "createAsset", "deleteDirectory", "deleteAsset"}

\* _getAsset holds the entity object it looked up until its delay is over:
\* the content it will read is the one the object has by then, also when the
\* object has left the tree in between
HeldAfter(o, t2, replaced) ==
  IF o.pc = "_getAsset" /\ o.res.attached
  THEN LET k == KeyOf(o.path)
       IN  IF \E K \in replaced : IsPrefix(K, k)
           THEN [o EXCEPT !.res.attached = FALSE]
           ELSE [o EXCEPT !.res.content = t2[k].content]
  ELSE o

\* the call of a public operation in slot s, up to its first asynchronous
\* boundary
Start(s, op2) ==
  /\ ops' = [x \in Slots |->
               IF x = s THEN op2
               ELSE IF Idle(x) THEN ops[x] ELSE [ops[x] EXCEPT !.solo = FALSE]]
  /\ last' = IF op2.pc = "done" THEN Summary(op2) ELSE last
  /\ UNCHANGED <<tree, subscribers, lastEmit, now, probe, answer, log>>

\* one tick of the operation in slot s
Step(s, op2, t2, le2) ==
  LET replaced == IF t2 # tree /\ ops[s].kind \in Replacers
                  THEN {TargetKey(ops[s].path)} ELSE {}
  IN  /\ ops' = [x \in Slots |-> IF x = s THEN op2 ELSE HeldAfter(ops[x], t2, replaced)]
      /\ tree' = t2
      /\ lastEmit' = le2
      /\ last' = IF op2.pc = "done" THEN Summary(op2) ELSE last
      /\ UNCHANGED <<subscribers, now, probe, answer, log>>

Begin(s) == ops[s] = Op0

\* the caller is done with the outcome of the call in slot s
Return(s) ==
  /\ Idle(s)
  /\ ops[s] # Op0
  /\ ops' = [ops EXCEPT ![s] = Op0]
  /\ UNCHANGED <<tree, subscribers, lastEmit, now, last, probe, answer, log>>

\* --------------------------------------------------------- public methods
Subscribe(id) ==
  /\ subscribers' = subscribe(subscribers, id)
  /\ UNCHANGED <<tree, lastEmit, now, ops, last, probe, answer, log>>

Unsubscribe(id) ==
  /\ subscribers' = unsubscribe(subscribers, id)
  /\ UNCHANGED <<tree, lastEmit, now, ops, last, probe, answer, log>>

Exists(s, path, sub) ==
  /\ Begin(s)
  /\ Start(s, Call_exists(NewOp(s, "exists", path, sub), "self", tree))

\* getInfo, and every operation that begins with getInfo(options)
GetInfoFirst == {"getInfo", "list", "getAsset", "getAssetThumbnail", "getAssetPreview",
                 "deleteAsset"}

GetInfo(s, kind, path, sub) ==
  /\ kind \in GetInfoFirst
  /\ Begin(s)
  /\ Start(s, Call_exists(NewOp(s, kind, path, sub), "pre", tree))

CreateDirectory(s, path, sub) ==
  /\ Begin(s)
  /\ LET op == NewOp(s, "createDirectory", path, sub)
     IN  IF isRoot(path)
         THEN Start(s, Fail(subscribers, [op EXCEPT !.phase = "sync"], ErrCreateRoot))
         ELSE Start(s, Call_exists(op, "chk", tree))

DeleteDirectory(s, path, sub) ==
  /\ Begin(s)
  /\ LET op == NewOp(s, "deleteDirectory", path, sub)
     IN  IF isRoot(path)
         THEN Start(s, Fail(subscribers, [op EXCEPT !.phase = "sync"], ErrDeleteRoot))
         ELSE Start(s, Call_exists(op, "pre", tree))

CreateAsset(s, path, sub, content, hasCb) ==
  /\ Begin(s)
  /\ Start(s, Call_exists([NewOp(s, "createAsset", path, sub) EXCEPT
                             !.content = content, !.hasCb = hasCb], "chk", tree))

UpdateAsset(s, path, sub, content, hasCb) ==
  /\ Begin(s)
  /\ Start(s, Call_exists([NewOp(s, "updateAsset", path, sub) EXCEPT
                             !.content = content, !.hasCb = hasCb], "pre", tree))

UpdateAssetInfo(s, path, sub, patch) ==
  /\ Begin(s)
  /\ Start(s, Call_exists([NewOp(s, "updateAssetInfo", path, sub) EXCEPT
                             !.patch = patch], "pre", tree))

\* _findAssets searches at once and answers after _doDelay
FindAssets(s, term, sub) ==
  /\ Begin(s)
  /\ Start(s, [NewOp(s, "findAssets", <<>>, sub) EXCEPT
                 !.term = term, !.snap = Snap0, !.phase = "store", !.pc = "_findAssets",
                 !.res = [Res0 EXCEPT !.list = _findAssets(tree, term)],
                 !.calls = {"_findAssets"}])

\* ------------------------------------------------- callbacks of the store
\* the operation remembers the error a primitive of the store reported to it
\* and the phase it was in
Noted(op, err) ==
  IF err # NoErr THEN [op EXCEPT !.storeErr = err, !.storeErrAt = op.phase] ELSE op

\* the callback that exists() gave to _exists is invoked with (err, exists)
ExistsAnswer(s, err, exists) ==
  LET op == Noted(ops[s], err)
  IN  /\ op.pc = "_exists"
      /\ IF op.phase = "self"
         THEN Step(s, Deliver(subscribers, op,
                        IF err # NoErr THEN [Out0 EXCEPT !.err = err, !.ex = exists]
                        ELSE [Out0 EXCEPT !.kind = "bool", !.ex = exists]),
                   tree, lastEmit)
         ELSE IF ~emitCallback(subscribers, op.sub)
         THEN Step(s, Stall(op), tree, lastEmit)
         ELSE IF op.phase = "chk"
         THEN IF PathTaken(err, exists)
              THEN IF op.kind = "createDirectory"
                   THEN Step(s, Fail(subscribers, op, IF exists THEN ErrDirExists ELSE err),
                             tree, lastEmit)
                   ELSE Step(s, WriteSendCallback(subscribers, op,
                                  [Out0 EXCEPT !.err = IF err # NoErr THEN err
                                                       ELSE ErrAssetExists]), tree, lastEmit)
              ELSE Step(s, Call_exists(op, "par", tree), tree, lastEmit)
         ELSE \* inside getInfo: if (err || !exists)
              IF err # NoErr \/ ~exists
              THEN LET r == AfterGetInfo(subscribers, op, IF ~exists THEN ErrNoPath ELSE err,
                                         NoInfo, tree, now)
                   IN  Step(s, r.op, r.tree, lastEmit)
              ELSE Step(s, Call_getInfo(op, tree), tree, lastEmit)

\* the answer of the in-memory _exists arrives: never an error
ExistsCb(s) ==
  /\ ops[s].res.err = NoErr
  /\ ExistsAnswer(s, NoErr, ops[s].res.ex)

\* the _exists of another store answers with an error; exists is then absent
\* (FALSE) or whatever the store passes along with the error
ExistsFails(s, exists) ==
  /\ ops[s].res.err = NoErr
  /\ ExistsAnswer(s, BackendError, exists)

\* the answer of _getInfo arrives
GetInfoCb(s) ==
  LET op == ops[s]
  IN  /\ op.pc = "_getInfo"
      /\ IF op.kind # "getInfo" /\ ~emitCallback(subscribers, op.sub)
         THEN Step(s, Stall(op), tree, lastEmit)
         ELSE LET r == AfterGetInfo(subscribers, op, op.res.err, op.res.info, tree, now)
              IN  Step(s, r.op, r.tree, lastEmit)

ListCb(s) ==
  LET op == ops[s]
  IN  /\ op.pc \in {"_list", "_findAssets"}
      /\ Step(s, Deliver(subscribers, op,
                   IF op.res.err # NoErr THEN [Out0 EXCEPT !.err = op.res.err]
                   ELSE [Out0 EXCEPT !.kind = "list", !.list = op.res.list]),
              tree, lastEmit)

\* the answer of _createDirectory or _updateAssetInfo arrives
MutatedCb(s) ==
  LET op == ops[s]
  IN  /\ op.pc \in {"_createDirectory", "_updateAssetInfo"}
      /\ IF op.res.err # NoErr
         THEN Step(s, Fail(subscribers, op, op.res.err), tree, lastEmit)
         ELSE Step(s, Call_exists(op, "post", tree), tree, lastEmit)

\* the delay of _deleteDirectory or _deleteAsset is over
DeleteCb(s) ==
  LET op == ops[s]
      r == _deleteEntity(tree, op.path)
  IN  /\ op.pc \in {"_deleteDirectory", "_deleteAsset"}
      /\ IF r.err = Thrown
         THEN Step(s, Throw(op, "storeThrown"), tree, lastEmit)
         ELSE Step(s, [Deliver(subscribers, op, [Out0 EXCEPT !.err = r.err])
                         EXCEPT !.changed = @ \/ r.tree # tree], r.tree, lastEmit)

\* every read monitored
monitorProgress_always(kind) == TRUE

\* the monitorProgress argument of _getExistingAssetStream
monitorProgress(kind) == kind = "getAsset"

\* the callback given to _getAsset is invoked with (err, stream)
GetAssetAnswer(s, err) ==
  LET op == Noted(ops[s], err)
      p0 == Progress(TRANSFER_TYPE_READ, 0, 0)
      e == _emitTransferProgress(subscribers, lastEmit, now, op, TRANSFER_TYPE_READ, p0,
                                 TRUE, FALSE)
  IN  /\ op.pc = "_getAsset"
      /\ IF monitorProgress(op.kind)
         THEN IF err # NoErr
              THEN \* stream is undefined: stream.on raises
                   Step(s, Throw(WithEvent(WithInfo(op), e, p0), "thrown"), tree, e.le)
              ELSE Step(s, [Settle(subscribers, WithEvent(WithInfo(op), e, p0),
                                   [Out0 EXCEPT !.kind = "stream"])
                              EXCEPT !.pc = "reading", !.remaining = op.res.content,
                                     !.startTime = now, !.res = Res0],
                        tree, e.le)
         ELSE IF err # NoErr
              THEN Step(s, Fail(subscribers, op, err), tree, lastEmit)
              ELSE Step(s, Deliver(subscribers, op, [Out0 EXCEPT !.kind = "stream"]),
                        tree, lastEmit)

\* the answer of the in-memory _getAsset arrives
GetAssetCb(s) ==
  /\ ops[s].res.err \in {NoErr, ErrNotFound, ErrNoChildren}
  /\ GetAssetAnswer(s, ops[s].res.err)

\* the _getAsset of another store fails to open the stream of the asset
GetAssetFails(s) ==
  /\ ops[s].res.err = NoErr
  /\ GetAssetAnswer(s, BackendError)

\* a store that puts the new asset into the tree when it opens the write stream
WriteStreamCb_eager(s) ==
  LET op == ops[s]
      p0 == Progress(TransferType(op), 0, 0)
      e == _emitTransferProgress(subscribers, lastEmit, now, op, TransferType(op), p0,
                                 TRUE, FALSE)
      c == _createEntity(tree, op.path, _getAssetInfo(op.path, now))
  IN  /\ op.pc = "_getAssetWriteStream"
      /\ Step(s, [WithEvent(WithInfo(op), e, p0) EXCEPT !.pc = "transfer",
                                                        !.remaining = op.content,
                                                        !.startTime = now],
              IF op.kind = "createAsset" /\ c.err = NoErr THEN c.tree ELSE tree, e.le)

\* the delay of _getAssetWriteStream is over: streamCallback(undefined, stream)
WriteStreamCb(s) ==
  LET op == ops[s]
      p0 == Progress(TransferType(op), 0, 0)
      e == _emitTransferProgress(subscribers, lastEmit, now, op, TransferType(op), p0,
                                 TRUE, FALSE)
  IN  /\ op.pc = "_getAssetWriteStream"
      /\ Step(s, [WithEvent(WithInfo(op), e, p0) EXCEPT !.pc = "transfer",
                                                        !.remaining = op.content,
                                              !.startTime = now],
              tree, e.le)

\* a 'data' event of the monitored stream
Data(s) ==
  LET op == ops[s]
      chunk == Head(op.remaining)
      total == op.totalRead + Len(chunk)
      type == TransferType(op)
      elapsed == now - op.startTime
      p0 == Progress(type, 0, 0)
      rate == IF _shouldEmitProgress(lastEmit, now, op.path, type, FALSE, FALSE, p0)
                 /\ elapsed > 0
              THEN Rate(total, elapsed) ELSE op.rate
      p == Progress(type, total, rate)
      e == _emitTransferProgress(subscribers, lastEmit, now, op, type, p, FALSE, FALSE)
  IN  /\ op.pc \in {"transfer", "reading"}
      /\ op.remaining # <<>>
      /\ Step(s, WithEvent([op EXCEPT !.remaining = Tail(@), !.written = Append(@, chunk),
                                      !.totalRead = total, !.rate = rate], e, p),
              tree, e.le)

\* the 'end' event of a read
ReadEnd(s) ==
  LET op == ops[s]
      p == Progress(TRANSFER_TYPE_READ, op.totalRead, op.rate)
      e == _emitTransferProgress(subscribers, lastEmit, now, op, TRANSFER_TYPE_READ, p,
                                 TRUE, TRUE)
  IN  /\ op.pc = "reading"
      /\ op.remaining = <<>>
      /\ Step(s, Finished([WithEvent(op, e, p) EXCEPT !.out.data = op.written]), tree, e.le)

\* the 'finish' event of the write stream: the store commits and calls
\* finishedCallback
Finish(s) ==
  LET op == ops[s]
      isCreate == op.kind = "createAsset"
      c == _createEntity(tree, op.path, updateContent(_getAssetInfo(op.path, now),
                                                      op.written))
      g == _getEntity(tree, op.path)
      r == IF isCreate THEN c
           ELSE IF g.err # NoErr THEN [err |-> g.err, tree |-> tree]
           ELSE IF tree[g.key].hasChildren THEN [err |-> Thrown, tree |-> tree]
           ELSE [err |-> NoErr,
                 tree |-> [tree EXCEPT ![g.key] = updateContent(@, op.written)]]
      p == Progress(TransferType(op), op.totalRead, op.rate)
      e == _emitTransferProgress(subscribers, lastEmit, now, op, TransferType(op), p,
                                 TRUE, TRUE)
      o == [op EXCEPT !.changed = @ \/ r.tree # tree]
  IN  /\ op.pc = "transfer"
      /\ op.remaining = <<>>
      /\ IF r.err = Thrown
         THEN Step(s, Throw(op, "storeThrown"), tree, lastEmit)
         ELSE IF r.err # NoErr
         THEN Step(s, WriteSendCallback(subscribers, op, [Out0 EXCEPT !.err = r.err]),
                   tree, lastEmit)
         ELSE IF op.hasCb
         THEN Step(s, Call_exists(WithEvent(o, e, p), "post", r.tree), r.tree, e.le)
         ELSE Step(s, [Finished(WithEvent(o, e, p)) EXCEPT !.fate = "nocallback"],
                   r.tree, e.le)

\* the read stream or the write stream of a createAsset/updateAsset emits
\* 'error': _sendCallback(err) runs; the pipe is over, the locals of the
\* transfer stay as they are
StreamError(s, err) ==
  LET op == ops[s]
      o == [op EXCEPT !.storeErr = err, !.storeErrAt = "stream"]
      sent == WriteSendCallback(subscribers, o, [Out0 EXCEPT !.err = err])
  IN  /\ op.pc = "transfer"
      /\ Step(s, [o EXCEPT !.pc = "failed", !.fate = sent.fate, !.out = sent.out,
                           !.cbCount = sent.cbCount, !.dropCount = sent.dropCount,
                           !.callbackSent = sent.callbackSent],
              tree, lastEmit)

\* what the store does after a stream error: it stays silent, or it still
\* invokes finishedCallback, with an error or without one
AfterStreamError(s, signal) ==
  LET op == ops[s]
      p == Progress(TransferType(op), op.totalRead, op.rate)
      e == _emitTransferProgress(subscribers, lastEmit, now, op, TransferType(op), p,
                                 TRUE, TRUE)
  IN  /\ op.pc = "failed"
      /\ IF signal = "silent"
         THEN Step(s, Finished(op), tree, lastEmit)
         ELSE IF signal # NoErr
         THEN Step(s, WriteSendCallback(subscribers, op, [Out0 EXCEPT !.err = signal]),
                   tree, lastEmit)
         ELSE IF op.hasCb
         THEN Step(s, Call_exists(WithEvent(op, e, p), "post", tree), tree, e.le)
         ELSE Step(s, Finished(WithEvent(op, e, p)), tree, e.le)

\* time passes
Tick(d) ==
  /\ (now - Epoch) \div d < MaxTime
  /\ now' = now + d
  /\ UNCHANGED <<tree, subscribers, lastEmit, ops, last, probe, answer, log>>

AllKinds ==
  {"exists", "getInfo", "list", "createDirectory", "deleteDirectory", "getAsset",
   "getAssetThumbnail", "getAssetPreview", "createAsset", "updateAsset",
   "updateAssetInfo", "deleteAsset", "findAssets"}

\* one operation at a time, of every kind, with and without a subscriber
Next ==
  \/ \E id \in SubIds : Subscribe(id)
  \/ \E id \in SubIds : Unsubscribe(id)
  \/ \E path \in PathInputs, sub \in OptSubs : Exists(1, path, sub)
  \/ \E kind \in AllKinds, path \in PathInputs, sub \in OptSubs : GetInfo(1, kind, path, sub)
  \/ \E path \in PathInputs, sub \in OptSubs : CreateDirectory(1, path, sub)
  \/ \E path \in PathInputs, sub \in OptSubs : DeleteDirectory(1, path, sub)
  \/ \E path \in PathInputs, sub \in OptSubs, content \in ContentInputs, hasCb \in BOOLEAN :
       CreateAsset(1, path, sub, content, hasCb)
  \/ \E path \in PathInputs, sub \in OptSubs, content \in ContentInputs, hasCb \in BOOLEAN :
       UpdateAsset(1, path, sub, content, hasCb)
  \/ \E path \in PathInputs, sub \in OptSubs, patch \in PatchInputs :
       UpdateAssetInfo(1, path, sub, patch)
  \/ \E term \in TermInputs, sub \in OptSubs : FindAssets(1, term, sub)
  \/ ExistsCb(1)
  \/ GetInfoCb(1)
  \/ ListCb(1)
  \/ MutatedCb(1)
  \/ DeleteCb(1)
  \/ GetAssetCb(1)
  \/ WriteStreamCb(1)
  \/ Data(1)
  \/ ReadEnd(1)
  \/ Finish(1)
  \/ Return(1)
  \/ \E d \in ClockSteps : Tick(d)

Spec == Init /\ [][Next]_vars

\* two operations side by side: operations that change or read the nodes of
\* one branch of the tree, without subscriber
RacePaths(s) == IF s = 1 THEN { <<"/", "a">>, <<"/", "a", "/", "b">> } ELSE { <<"/", "a">> }
RaceReads(s) == IF s = 1 THEN {"getAsset"} ELSE {"getAsset", "deleteAsset"}

NextRace ==
  \/ \E path \in RacePaths(1) : Exists(1, path, Undefined)
  \/ \E s \in Slots : \E kind \in RaceReads(s), path \in RacePaths(s) :
       GetInfo(s, kind, path, Undefined)
  \/ \E s \in Slots : \E path \in RacePaths(s) : CreateDirectory(s, path, Undefined)
  \/ \E path \in RacePaths(2) : DeleteDirectory(2, path, Undefined)
  \/ \E s \in Slots : \E path \in RacePaths(s) : CreateAsset(s, path, Undefined, ContentOf(1), TRUE)
  \/ \E s \in Slots : ExistsCb(s)
  \/ \E s \in Slots : GetInfoCb(s)
  \/ \E s \in Slots : MutatedCb(s)
  \/ \E s \in Slots : DeleteCb(s)
  \/ \E s \in Slots : GetAssetCb(s)
  \/ \E s \in Slots : WriteStreamCb(s)
  \/ \E s \in Slots : Data(s)
  \/ \E s \in Slots : ReadEnd(s)
  \/ \E s \in Slots : Finish(s)
  \/ \E s \in Slots : Return(s)

SpecRace == Init /\ [][NextRace]_vars

\* one operation at a time on unusual inputs: a path with a trailing separator,
\* a node named "..", a patch that names the created time, the name or the type
OddPaths == { <<"/", "a">>, <<"/", "a", "/">>, <<"/", "a", "/", ".", ".">> }
OddPatches == { [created |-> Epoch + 1], [name |-> <<"b">>], [type |-> DIR_TYPE] }

NextOdd ==
  \/ \E path \in OddPaths : Exists(1, path, Undefined)
  \/ \E kind \in {"list", "deleteAsset"}, path \in OddPaths : GetInfo(1, kind, path, Undefined)
  \/ \E path \in OddPaths : CreateDirectory(1, path, Undefined)
  \/ \E path \in OddPaths : DeleteDirectory(1, path, Undefined)
  \/ \E path \in OddPaths : CreateAsset(1, path, Undefined, ContentOf(1), TRUE)
  \/ \E path \in OddPaths, patch \in OddPatches : UpdateAssetInfo(1, path, Undefined, patch)
  \/ ExistsCb(1)
  \/ GetInfoCb(1)
  \/ ListCb(1)
  \/ MutatedCb(1)
  \/ DeleteCb(1)
  \/ WriteStreamCb(1)
  \/ Data(1)
  \/ Finish(1)
  \/ Return(1)

SpecOdd == Init /\ [][NextOdd]_vars

\* transfers of one asset, one at a time, while the clock advances in steps of
\* half the throttle window
WatchedPath == <<"/", "a">>
WatchSteps == {EMIT_DELAY \div 2}
WatchedContents == {ContentOf(n) : n \in 0..MaxChunks}

Advance(d) ==
  /\ now - Epoch < MaxSpan * d
  /\ now' = now + d
  /\ UNCHANGED <<tree, subscribers, lastEmit, ops, last, probe, answer, log>>

NextProgress ==
  \/ \E content \in WatchedContents : CreateAsset(1, WatchedPath, Undefined, content, TRUE)
  \/ \E content \in WatchedContents : UpdateAsset(1, WatchedPath, Undefined, content, TRUE)
  \/ GetInfo(1, "getAsset", WatchedPath, Undefined)
  \/ ExistsCb(1)
  \/ GetInfoCb(1)
  \/ GetAssetCb(1)
  \/ WriteStreamCb(1)
  \/ Data(1)
  \/ ReadEnd(1)
  \/ Finish(1)
  \/ Return(1)
  \/ \E d \in WatchSteps : Advance(d)

SpecProgress == Init /\ [][NextProgress]_vars

\* one operation at a time on paths that resolve to the root (the empty path,
\* the separator alone or doubled) and on a child of the root
RootPaths == { <<>>, <<"/">>, <<"/", "/">>, <<"/", "a">>, <<"/", "a", "/">> }

NextRoot ==
  \/ \E kind \in {"list", "deleteAsset"}, path \in RootPaths : GetInfo(1, kind, path, Undefined)
  \/ \E path \in RootPaths : CreateDirectory(1, path, Undefined)
  \/ \E path \in RootPaths : DeleteDirectory(1, path, Undefined)
  \/ \E path \in RootPaths : CreateAsset(1, path, Undefined, ContentOf(1), TRUE)
  \/ \E path \in RootPaths : UpdateAsset(1, path, Undefined, ContentOf(1), TRUE)
  \/ \E path \in RootPaths, patch \in PatchInputs : UpdateAssetInfo(1, path, Undefined, patch)
  \/ ExistsCb(1)
  \/ GetInfoCb(1)
  \/ ListCb(1)
  \/ MutatedCb(1)
  \/ DeleteCb(1)
  \/ WriteStreamCb(1)
  \/ Data(1)
  \/ Finish(1)
  \/ Return(1)

SpecRoot == Init /\ [][NextRoot]_vars

\* one operation at a time against a store whose _exists and _getAsset may
\* answer with an error and whose transfers may end with a stream error
NextFaulty ==
  \/ \E path \in PathInputs : Exists(1, path, Undefined)
  \/ \E kind \in GetInfoFirst, path \in PathInputs : GetInfo(1, kind, path, Undefined)
  \/ \E path \in PathInputs : CreateDirectory(1, path, Undefined)
  \/ \E path \in PathInputs : DeleteDirectory(1, path, Undefined)
  \/ \E path \in PathInputs : CreateAsset(1, path, Undefined, ContentOf(1), TRUE)
  \/ \E path \in PathInputs : UpdateAsset(1, path, Undefined, ContentOf(1), TRUE)
  \/ \E path \in PathInputs, patch \in PatchInputs : UpdateAssetInfo(1, path, Undefined, patch)
  \/ ExistsCb(1)
  \/ \E exists \in BOOLEAN : ExistsFails(1, exists)
  \/ GetInfoCb(1)
  \/ ListCb(1)
  \/ MutatedCb(1)
  \/ DeleteCb(1)
  \/ GetAssetCb(1)
  \/ GetAssetFails(1)
  \/ WriteStreamCb(1)
  \/ Data(1)
  \/ ReadEnd(1)
  \/ Finish(1)
  \/ \E err \in StreamErrors : StreamError(1, err)
  \/ \E signal \in {"silent", NoErr, BackendError} : AfterStreamError(1, signal)
  \/ Return(1)

SpecFaulty == Init /\ [][NextFaulty]_vars

\* the path utilities applied to every string of up to MaxLen characters
Alphabet == {sep, "a", "b"}
Strings == UNION {[1..n -> Alphabet] : n \in 0..MaxLen}

InitPath ==
  /\ Constructed
  /\ probe \in Strings
  /\ answer = NoAnswer

Returned(fn, path, flag) ==
  /\ answer' = [fn |-> fn, path |-> path, flag |-> flag]
  /\ UNCHANGED <<tree, subscribers, lastEmit, now, ops, last, probe, log>>

GetParentPath ==
  /\ answer = NoAnswer
  /\ Returned("getParentPath", getParentPath(probe), FALSE)

GetPathName ==
  /\ answer = NoAnswer
  /\ Returned("getPathName", getPathName(probe), FALSE)

IsRoot ==
  /\ answer = NoAnswer
  /\ Returned("isRoot", <<>>, isRoot(probe))

NextPath ==
  \/ GetParentPath
  \/ GetPathName
  \/ IsRoot

SpecPath == InitPath /\ [][NextPath]_vars

\* args[i].replace(/\\/g, '/')
Slashed(p) == [i \in 1..Len(p) |-> IF p[i] = "\\" THEN sep ELSE p[i]]

\* the arguments put one after the other with separators, as they are
joinPath_glued(args) ==
  Glue(SelectSeq([i \in 1..Len(args) |-> Slashed(args[i])], LAMBDA a : a # <<>>))

\* utils.joinPath(...args): Path.join of the arguments, backslashes read as
\* separators
joinPathOf(args) ==
  LET joined == Glue(SelectSeq([i \in 1..Len(args) |-> Slashed(args[i])],
                               LAMBDA a : a # <<>>))
  IN  IF joined = <<>> THEN <<".">> ELSE normalize(joined)

\* joinPath(sep, s1, ..., sn) and the way back, for every list of segments of
\* up to MaxLen characters in all: letters, dots and backslashes
SegmentChars == {"a", ".", "\\"}
Segments == {<<c>> : c \in SegmentChars} \cup {<<c, d>> : c \in SegmentChars, d \in SegmentChars}
SegmentLists ==
  {l \in UNION {[1..n -> Segments] : n \in 1..MaxLen} : TotalLength(l) <= MaxLen}

InitJoin ==
  /\ Constructed
  /\ probe \in SegmentLists
  /\ answer = NoAnswer

\* p = joinPath(sep, s1, ..., sn)
JoinPath ==
  /\ answer = NoAnswer
  /\ Returned("joinPath", joinPathOf(<<(<<sep>>)>> \o probe), FALSE)

\* joinPath(getParentPath(p), getPathName(p))
Rejoin ==
  /\ answer.fn = "joinPath"
  /\ Returned("rejoin", joinPathOf(<<getParentPath(answer.path), getPathName(answer.path)>>),
              FALSE)

NextJoin ==
  \/ JoinPath
  \/ Rejoin

SpecJoin == InitJoin /\ [][NextJoin]_vars

\* subscribe and unsubscribe calls on a new repository, each call remembered
CallerIds == {"s1", "s2", "constructor"}

SubscribeCall(id) ==
  /\ Len(log) < MaxCalls
  /\ subscribers' = subscribe(subscribers, id)
  /\ log' = Append(log, <<"subscribe", id>>)
  /\ UNCHANGED <<tree, lastEmit, now, ops, last, probe, answer>>

UnsubscribeCall(id) ==
  /\ Len(log) < MaxCalls
  /\ subscribers' = unsubscribe(subscribers, id)
  /\ log' = Append(log, <<"unsubscribe", id>>)
  /\ UNCHANGED <<tree, lastEmit, now, ops, last, probe, answer>>

NextSubs ==
  \/ \E id \in CallerIds : SubscribeCall(id)
  \/ \E id \in CallerIds : UnsubscribeCall(id)

SpecSubs == Init /\ [][NextSubs]_vars

\* ================================================================ properties

\* C1: a callback is invoked only when the call carries no subscriber id
\* (absent or empty) or its id is subscribed at that moment, and is dropped
\* only otherwise; a dropped delivery raises no error, and after it the
\* callback of the operation is never invoked
C1_SubscriberGate ==
  [][\A s \in Slots :
       LET o == ops[s]
           o2 == ops'[s]
           open == o2.sub = Undefined \/ o2.sub = "" \/ o2.sub \in subscribers
       IN  /\ o2.cbCount > o.cbCount => open /\ o2.cbCount = 1 /\ o2.dropCount = 0
           /\ o2.dropCount > o.dropCount =>
                 ~open /\ o2.fate \in {"dropped", "stalled"} /\ o2.cbCount = 0
           /\ o.dropCount > 0 /\ o2 # Op0 => o2.cbCount = 0 /\ o2.fate = o.fate]_vars

\* a read whose callback was dropped goes on streaming
C1_Witness ==
  \E s \in Slots :
    /\ ops[s].kind = "getAsset" /\ ops[s].sub = "s1" /\ ops[s].fate = "dropped"
    /\ ops[s].pc = "done" /\ ops[s].dropCount = 1 /\ ops[s].cbCount = 0

\* C2: while the subscriber id of an operation is not subscribed, no step
\* invokes the callback of the operation or emits a transferprogress event
\* for it
C2_UnsubscribedSilence ==
  [][\A s \in Slots :
       LET o == ops[s]
           o2 == ops'[s]
       IN  o2.sub \in SubIds /\ o2.sub \notin subscribers /\ o2.sub \notin subscribers' =>
             /\ o2.cbCount = o.cbCount
             /\ o2.events = o.events]_vars

\* a transfer that had emitted its start event when its subscriber left
C2_Witness ==
  \E s \in Slots :
    /\ ops[s].kind = "createAsset" /\ ops[s].sub = "s1" /\ "s1" \notin subscribers
    /\ Len(ops[s].events) = 1 /\ ops[s].fate = "stalled" /\ ops[s].cbCount = 0
    /\ TypeAt(tree, ops[s].path) = ASSET_TYPE

\* the pre-conditions of a changing operation held when it was called
Applicable(o) ==
  CASE o.kind = "createDirectory" ->
         ~isRoot(o.path) /\ o.snap.type = "none" /\ o.snap.parent = DIR_TYPE
    [] o.kind = "createAsset" -> o.snap.type = "none" /\ o.snap.parent = DIR_TYPE
    [] o.kind = "deleteDirectory" -> ~isRoot(o.path) /\ o.snap.type = DIR_TYPE
    [] o.kind \in {"updateAsset", "deleteAsset", "updateAssetInfo"} ->
         o.snap.type = ASSET_TYPE
    [] OTHER -> FALSE

\* C3: the subscription state only suppresses notification: an operation
\* whose pre-conditions held when it was called, running alone, has delegated
\* its change to the store by the time it is over, whether its subscriber id
\* is absent, subscribed or unsubscribed
C3_WorkNotAborted ==
  \A s \in Slots :
    LET o == ops[s]
    IN  o.pc = "done" /\ o.solo /\ Applicable(o) => o.calls \cap Mutators # {}

\* C4: an operation called without subscriber id, against a store that
\* answers every call made to it, has invoked its callback exactly once by
\* the time it is over, with an error or with a success payload and never
\* with both (a delete succeeds without payload)
C4_ExactlyOneCallback ==
  \A s \in Slots :
    LET o == ops[s]
    IN  o.pc = "done" /\ o.kind # "idle" /\ o.sub = Undefined /\ o.hasCb
          /\ o.fate # "storeThrown" =>
          /\ o.cbCount = 1
          /\ o.out.err # NoErr => o.out.kind = "none"
          /\ o.out.err = NoErr /\ o.kind \notin {"deleteDirectory", "deleteAsset"} =>
                o.out.kind # "none"

\* C5: an operation that reports a pre-condition failure (the error of one of
\* its checks before it delegates to the store) has invoked no primitive that
\* changes the store and has left the tree as it was
C5_RejectedLeavesStore ==
  \A s \in Slots :
    LET o == ops[s]
    IN  o.pc = "done" /\ o.fate \in {"delivered", "dropped"}
          /\ o.phase \in {"sync", "chk", "par", "pre"}
          /\ o.out.err \in PreconditionErrors =>
          /\ o.calls \cap Mutators = {}
          /\ ~o.changed
          /\ Snap(tree, o.path) = o.snap

\* deleteDirectory of an asset was rejected and the asset is still there
C5_Witness ==
  \E s \in Slots :
    /\ ops[s].kind = "deleteDirectory" /\ ops[s].fate = "delivered"
    /\ ops[s].out.err = ErrDeleteNotDir /\ TypeAt(tree, ops[s].path) = ASSET_TYPE

\* C6: createDirectory and deleteDirectory of the root are over at once with
\* their error, without any call of the store and with the tree unchanged
C6_RootRefused ==
  \A s \in Slots :
    LET o == ops[s]
    IN  o.kind \in {"createDirectory", "deleteDirectory"} /\ o.path = <<"/">> =>
          /\ o.pc = "done" /\ o.fate \in {"delivered", "dropped"}
          /\ o.out.err = (IF o.kind = "createDirectory" THEN ErrCreateRoot
                          ELSE ErrDeleteRoot)
          /\ o.out.kind = "none"
          /\ o.calls = {}
          /\ ~o.changed
          /\ Snap(tree, o.path) = o.snap

\* deleteDirectory of the root of a tree that has nodes was refused
C6_Witness ==
  \E s \in Slots :
    /\ ops[s].kind = "deleteDirectory" /\ ops[s].path = <<"/">>
    /\ ops[s].fate = "delivered" /\ ops[s].out.err = ErrDeleteRoot
    /\ DOMAIN tree # {RootKey}

C8_CreateDirectoryOutcome ==
  \A s \in Slots :
    LET o == ops[s]
        taken == o.snap.type # "none"
        bad == taken \/ o.snap.parent # DIR_TYPE
    IN  o.kind = "createDirectory" /\ o.pc = "done" /\ o.path # <<"/">>
          /\ o.fate # "stalled" =>
          /\ o.fate \in {"delivered", "dropped"}
          /\ bad <=> o.out.err # NoErr
          /\ bad =>
                /\ o.out.err = (IF taken THEN ErrDirExists
                                ELSE IF o.snap.parent = "none" THEN ErrNoPath
                                ELSE ErrDirBeneath)
                /\ o.out.kind = "none"
                /\ o.calls \cap Mutators = {} /\ ~o.changed
                /\ Snap(tree, o.path) = o.snap
          /\ ~bad =>
                /\ o.out.kind = "info"
                /\ o.out.info = _getInfo(tree, o.path).info
                /\ o.out.info.type = DIR_TYPE
                /\ o.out.info.name = getPathName(o.path)

\* createDirectory beneath an asset was refused
C8_Witness ==
  \E s \in Slots :
    /\ ops[s].kind = "createDirectory" /\ ops[s].pc = "done"
    /\ ops[s].fate = "delivered" /\ ops[s].out.err = ErrDirBeneath
    /\ ops[s].snap.parent = ASSET_TYPE /\ TypeAt(tree, ops[s].path) = "none"

\* C9: a createAsset whose parent does not exist, whose parent is an asset or
\* whose path exists creates nothing, leaves the node at the path as it was
\* and reports an error
C9_CreateAssetRefused ==
  \A s \in Slots :
    LET o == ops[s]
    IN  o.kind = "createAsset" /\ (o.snap.type # "none" \/ o.snap.parent # DIR_TYPE) =>
          /\ o.calls \cap Mutators = {} /\ ~o.changed /\ o.events = <<>>
          /\ Snap(tree, o.path) = o.snap
          /\ o.pc = "done" /\ o.hasCb /\ o.fate # "stalled" =>
                /\ o.fate \in {"delivered", "dropped"}
                /\ o.out.err # NoErr /\ o.out.kind = "none"

\* createAsset onto an asset that has content was refused
C9_Witness ==
  \E s \in Slots :
    /\ ops[s].kind = "createAsset" /\ ops[s].pc = "done" /\ ops[s].fate = "delivered"
    /\ ops[s].out.err = ErrAssetExists /\ ops[s].content = <<>>
    /\ ops[s].snap.type = ASSET_TYPE /\ ops[s].snap.info.size > 0
    /\ _getInfo(tree, ops[s].path).info = ops[s].snap.info

\* the operations that need an asset, and those that need a directory
NeedAsset == {"updateAsset", "deleteAsset", "getAsset", "getAssetThumbnail",
              "getAssetPreview", "updateAssetInfo"}
NeedDirectory == {"list", "deleteDirectory"}

\* C10: updateAsset, deleteAsset, getAsset, getAssetThumbnail, getAssetPreview
\* and updateAssetInfo of a path that is missing or a directory, list and
\* deleteDirectory of a path that is missing or an asset, and getInfo of a
\* missing path report an error without payload and leave the tree as it was
C10_WrongPathRefused ==
  \A s \in Slots :
    LET o == ops[s]
        wrong == \/ o.kind \in NeedAsset /\ o.snap.type # ASSET_TYPE
                 \/ o.kind \in NeedDirectory /\ o.snap.type # DIR_TYPE
                 \/ o.kind = "getInfo" /\ o.snap.type = "none"
    IN  wrong =>
          /\ o.calls \cap Mutators = {} /\ ~o.changed /\ o.events = <<>>
          /\ Snap(tree, o.path) = o.snap
          /\ o.pc = "done" /\ o.hasCb /\ o.fate # "stalled" =>
                /\ o.fate \in {"delivered", "dropped"}
                /\ o.out.err # NoErr /\ o.out.kind = "none"

\* updateAsset of a missing path was refused and created nothing
C10_Witness ==
  \E s \in Slots :
    /\ ops[s].kind = "updateAsset" /\ ops[s].pc = "done" /\ ops[s].fate = "delivered"
    /\ ops[s].out.err = ErrNoPath /\ ops[s].content # <<>>
    /\ TypeAt(tree, ops[s].path) = "none"

\* the bytes of a sequence of chunks
RECURSIVE Bytes(_)
Bytes(content) == IF content = <<>> THEN <<>> ELSE Head(content) \o Bytes(Tail(content))

\* C11: a getAsset that follows a completed createAsset or updateAsset of the
\* same path reads exactly the bytes that were written, nothing of an earlier
\* content, and a getInfo that follows it reports their count as the size
C11_ContentRoundTrip ==
  \A s \in Slots :
    LET o == ops[s]
    IN  o.pc = "done" /\ o.fate = "delivered"
          /\ o.follows.kind \in {"createAsset", "updateAsset"}
          /\ o.follows.path = o.path =>
          /\ o.kind = "getAsset" =>
                /\ o.out.err = NoErr /\ o.out.kind = "stream"
                /\ Bytes(o.out.data) = Bytes(o.follows.content)
          /\ o.kind = "getInfo" =>
                /\ o.out.err = NoErr
                /\ o.out.info.size = Len(Bytes(o.follows.content))
                /\ o.out.info.type = ASSET_TYPE

\* an asset was read, at a later time than its creation, right after an
\* updateAsset that wrote no byte
C11_Witness ==
  \E s \in Slots :
    /\ ops[s].kind = "getAsset" /\ ops[s].pc = "done" /\ ops[s].fate = "delivered"
    /\ ops[s].follows.kind = "updateAsset" /\ ops[s].follows.path = ops[s].path
    /\ ops[s].follows.content = <<>> /\ ops[s].out.data = <<>>
    /\ ops[s].snap.info.created < now

\* C12: when updateAsset commits new content at a time later than the
\* modified time of the asset, the modified time that getInfo reports becomes
\* greater than it was
C12_UpdateAdvancesModified ==
  [][\A s \in Slots :
       LET o == ops[s]
           o2 == ops'[s]
           before == _getInfo(tree, o.path).info
           after == _getInfo(tree', o.path).info
       IN  o.kind = "updateAsset" /\ o.pc = "transfer" /\ o2.pc # "transfer"
             /\ o2.fate # "storeThrown" /\ o2.out.err = NoErr
             /\ now > before.modified =>
             after.modified > before.modified]_vars

\* C13: the created time of a node never changes while the node is in the
\* tree, whatever operation runs, updateAssetInfo with any patch included
C13_CreatedImmutable ==
  [][\A k \in DOMAIN tree \cap DOMAIN tree' : tree'[k].created = tree[k].created]_vars

\* the nodes directly below the node at key
DirectChildren(t, key) == {k \in DOMAIN t : Len(k) = Len(key) + 1 /\ IsPrefix(key, k)}

\* C14: list of an existing directory answers without error with exactly one
\* entry per direct child, carrying the name and type of the child and the
\* byte size of an asset; an empty directory gives the empty list
C14_ListDirectChildren ==
  \A s \in Slots :
    LET o == ops[s]
        kids == DirectChildren(tree, _getEntity(tree, o.path).key)
    IN  o.kind = "list" /\ o.pc = "done" /\ o.fate = "delivered"
          /\ o.snap.type = DIR_TYPE =>
          /\ o.out.err = NoErr /\ o.out.kind = "list"
          /\ Len(o.out.list) = Cardinality(kids)
          /\ \A k \in kids :
                \E i \in 1..Len(o.out.list) :
                  /\ o.out.list[i].name = tree[k].name
                  /\ o.out.list[i].type = tree[k].type
                  /\ o.out.list[i].size = Len(Bytes(tree[k].content))

\* C15: when deleteAsset or deleteDirectory reports success, the path does
\* not exist afterwards, nor does any path beneath it, and every node
\* that is not at or beneath the path is as it was, however the path is spelled
C15_DeleteRemoves ==
  [][\A s \in Slots :
       LET o == ops[s]
           o2 == ops'[s]
           key == _getEntity(tree, o.path).key
       IN  o.pc \in {"_deleteDirectory", "_deleteAsset"} /\ o2.pc = "done"
             /\ o2.fate = "delivered" /\ o2.out.err = NoErr =>
             /\ _getEntity(tree', o.path).err # NoErr
             /\ \A k \in DOMAIN tree' : ~IsPrefix(key, k)
             /\ \A k \in DOMAIN tree :
                   ~IsPrefix(key, k) => k \in DOMAIN tree' /\ tree'[k] = tree[k]]_vars

\* C16: findAssets answers without error, whatever the tree holds, with the
\* infos of exactly the assets, at any depth, whose name matches the pattern;
\* no directory is among them
C16_FindAssetsExact ==
  \A s \in Slots :
    LET o == ops[s]
        hits == {k \in DOMAIN tree : /\ tree[k].type = ASSET_TYPE
                                      /\ Matches(tree[k].name, o.term)}
    IN  o.kind = "findAssets" /\ o.pc = "done" /\ o.fate = "delivered" =>
          /\ o.out.err = NoErr /\ o.out.kind = "list"
          /\ Len(o.out.list) = Cardinality(hits)
          /\ \A k \in hits :
                \E i \in 1..Len(o.out.list) : o.out.list[i] = _infoFromEntity(tree[k])
          /\ \A i \in 1..Len(o.out.list) : o.out.list[i].type = ASSET_TYPE

\* the asset b below the directory a was found, the directory was not
C16_Witness ==
  \E s \in Slots :
    /\ ops[s].kind = "findAssets" /\ ops[s].pc = "done" /\ ops[s].fate = "delivered"
    /\ ops[s].term = <<".">>
    /\ TypeAt(tree, <<"/", "a">>) = DIR_TYPE
    /\ Len(ops[s].out.list) = 1 /\ ops[s].out.list[1].name = <<"b">>

\* the name holds the term as a literal substring
Contains(name, term) ==
  \E off \in 0..Len(name) :
    /\ off + Len(term) <= Len(name)
    /\ \A i \in 1..Len(term) : name[off + i] = term[i]

\* C17: with a string as search term, findAssets returns an asset if and only
\* if its name contains the string, character for character
C17_StringTermIsLiteral ==
  \A s \in Slots :
    LET o == ops[s]
    IN  o.kind = "findAssets" /\ o.pc = "done" /\ o.fate = "delivered" =>
          \A k \in DOMAIN tree :
            tree[k].type = ASSET_TYPE =>
              ((\E i \in 1..Len(o.out.list) : o.out.list[i].name = tree[k].name)
                 <=> Contains(tree[k].name, o.term))

\* the operations that transfer content, and the bytes a transfer carries
Transfers == {"createAsset", "updateAsset", "getAsset"}
TransferSize(o) ==
  IF o.kind = "getAsset" THEN o.snap.info.size ELSE Len(Bytes(o.content))
TypeOfTransfer(o) ==
  CASE o.kind = "createAsset" -> "create"
    [] o.kind = "updateAsset" -> "update"
    [] OTHER -> "read"

\* C18: a createAsset, updateAsset or getAsset without subscriber id that
\* transferred N bytes to completion, N being zero or more, has produced a
\* start event with read = 0 and, apart from it, an end event with read = N
C18_StartAndEndEvents ==
  \A s \in Slots :
    LET o == ops[s]
    IN  o.kind \in Transfers /\ o.pc = "done" /\ o.sub = Undefined
          /\ o.fate = "delivered" /\ o.out.err = NoErr =>
          /\ Len(o.events) >= 2
          /\ o.events[1].read = 0
          /\ o.events[Len(o.events)].read = TransferSize(o)

\* C19: an event for a data chunk, which is every event of a transfer other
\* than its forced start and end events, is emitted only when more than
\* EMIT_DELAY has passed since the event emitted before it for the key
C19_MiddleThrottled ==
  [][\A s \in Slots :
       LET o == ops[s]
           o2 == ops'[s]
       IN  o.pc \in {"transfer", "reading"} /\ o2.pc = o.pc
             /\ Len(o2.events) > Len(o.events) =>
             /\ Len(o.events) >= 1
             /\ now - o.eventAt > EMIT_DELAY]_vars

\* a transfer of two chunks with an event for each of them
C19_Witness ==
  \E s \in Slots :
    /\ ops[s].kind \in Transfers /\ ops[s].pc \in {"transfer", "reading"}
    /\ ops[s].remaining = <<>> /\ Len(ops[s].events) = 3
    /\ ops[s].events[2].read > 0 /\ ops[s].events[3].read > ops[s].events[2].read
    /\ now - ops[s].startTime > 2 * EMIT_DELAY

\* C20: a transfer of N > 0 bytes that ends no later than EMIT_DELAY after its
\* start has emitted exactly two events: (read 0, rate 0), then (read N, rate 0)
C20_TwoEventsWithinWindow ==
  [][\A s \in Slots :
       LET o == ops[s]
           o2 == ops'[s]
       IN  o.kind \in Transfers /\ o.pc \in {"transfer", "reading"}
             /\ o2.pc \notin {"transfer", "reading"} /\ o2.fate # "storeThrown"
             /\ TransferSize(o) > 0 /\ now - o.startTime <= EMIT_DELAY =>
             o2.events = << [type |-> TypeOfTransfer(o), read |-> 0, rate |-> 0],
                            [type |-> TypeOfTransfer(o), read |-> TransferSize(o),
                             rate |-> 0] >>]_vars

\* an update whose chunks all came at the edge of the window after its start
C20_Witness ==
  \E s \in Slots :
    /\ ops[s].kind = "updateAsset" /\ ops[s].pc = "done" /\ ops[s].fate = "delivered"
    /\ Len(ops[s].events) = 2 /\ ops[s].events[2].read = TransferSize(ops[s])
    /\ ops[s].events[2].read > 0 /\ ops[s].events[2].rate = 0
    /\ ops[s].eventAt > Epoch + EMIT_DELAY

\* C21: the rate carried by an event is round(bytesSoFar / elapsedMs), and 1
\* where that is 0, whenever time has passed since the transfer started; it
\* is 0 only when no time has passed
C21_RateFormula ==
  [][\A s \in Slots :
       LET o == ops[s]
           o2 == ops'[s]
           ev == o2.events[Len(o2.events)]
           elapsed == IF o.pc \in {"transfer", "reading"} THEN now - o.startTime ELSE 0
           rounded == (2 * ev.read + elapsed) \div (2 * elapsed)
       IN  Len(o2.events) > Len(o.events) =>
             ev.rate = IF elapsed > 0 THEN (IF rounded = 0 THEN 1 ELSE rounded) ELSE 0]_vars

\* C22: the step that completes a transfer leaves no record for its key, and
\* the step that starts a transfer, whatever transfers completed before it,
\* emits the start event and stamps the record of the key with its own time
C22_RecordRemoved ==
  [][\A s \in Slots :
       LET o == ops[s]
           o2 == ops'[s]
           key == <<o.path, TypeOfTransfer(o)>>
       IN  /\ o.kind \in Transfers /\ o.pc \in {"transfer", "reading"}
             /\ o2.pc \notin {"transfer", "reading"} /\ o2.fate # "storeThrown" =>
               key \notin DOMAIN lastEmit'
           /\ o.kind \in Transfers /\ o.pc \notin {"transfer", "reading"}
             /\ o2.pc \in {"transfer", "reading"} =>
               /\ o2.events = << [type |-> TypeOfTransfer(o), read |-> 0, rate |-> 0] >>
               /\ key \in DOMAIN lastEmit'
               /\ lastEmit'[key].timestamp = now
               /\ o2.startTime = now]_vars

\* a read of an asset has started, later than the throttle window after the
\* create of the same path completed, and the only record is its own
C22_Witness ==
  \E s \in Slots :
    /\ ops[s].kind = "getAsset" /\ ops[s].pc = "reading"
    /\ ops[s].snap.info.modified = ops[s].snap.info.created
    /\ ops[s].snap.info.size > 0 /\ now > Epoch + EMIT_DELAY
    /\ DOMAIN lastEmit = { <<ops[s].path, "read">> }

\* C23: no step of a getAssetThumbnail or getAssetPreview emits a
\* transferprogress event, creates a throttle record or changes one
C23_ThumbnailSilent ==
  [][\A s \in Slots :
       ops'[s].kind \in {"getAssetThumbnail", "getAssetPreview"} =>
         /\ ops'[s].events = <<>>
         /\ ops'[s] # ops[s] => lastEmit' = lastEmit]_vars

\* the stream of the thumbnail of an asset that has content was handed to
\* the caller
C23_Witness ==
  \E s \in Slots :
    /\ ops[s].kind = "getAssetThumbnail" /\ ops[s].pc = "done"
    /\ ops[s].fate = "delivered" /\ ops[s].out.kind = "stream"
    /\ ops[s].snap.info.size > 0 /\ ops[s].events = <<>>

Creates == {"createDirectory", "createAsset"}

\* C24: of two creates of the same path that were both called while the path
\* did not exist and ran side by side, at most one reports success
C24_CreatesDoNotRace ==
  \A s \in Slots : \A t \in Slots \ {s} :
    LET o == ops[s]
        p == ops[t]
    IN  /\ o.kind \in Creates /\ p.kind \in Creates /\ o.path = p.path
        /\ o.pc = "done" /\ p.pc = "done" /\ ~o.solo /\ ~p.solo
        /\ o.snap.type = "none" /\ p.snap.type = "none"
        /\ o.fate = "delivered" /\ p.fate = "delivered"
        => ~(o.out.err = NoErr /\ p.out.err = NoErr)

\* the names of the path in order, the empty ones left out
Names(path) == SelectSeq(Split(path), LAMBDA n : n # <<>>)

\* C25: after every step, whatever path the operation was given, the root
\* exists and is a directory, and a child of the root is gone only by a
\* delete whose path names that child
C25_RootKept ==
  [][/\ RootKey \in DOMAIN tree'
     /\ tree'[RootKey].type = DIR_TYPE
     /\ tree'[RootKey].hasChildren
     /\ \A k \in DOMAIN tree :
          Len(k) = 1 /\ k \notin DOMAIN tree' =>
            \E s \in Slots : /\ ops[s].kind \in {"deleteDirectory", "deleteAsset"}
                              /\ Names(ops[s].path) = k]_vars

\* a delete given the doubled separator reported its outcome while the root
\* had a child
C25_Witness ==
  \E s \in Slots :
    /\ ops[s].kind = "deleteDirectory" /\ ops[s].path = <<"/", "/">>
    /\ ops[s].pc = "done" /\ ops[s].fate = "delivered"
    /\ "_deleteDirectory" \in ops[s].calls
    /\ <<<<"a">>>> \in DOMAIN tree

\* C26: in every state, whatever the interleaving of the operations, every
\* node other than the root hangs in the children of a node that exists and
\* is a directory: no node is the child of an asset or of a node that is gone
C26_TreeShape ==
  \A k \in DOMAIN tree :
    k # RootKey =>
      LET parent == SubSeq(k, 1, Len(k) - 1)
      IN  /\ parent \in DOMAIN tree
          /\ tree[parent].type = DIR_TYPE
          /\ tree[parent].hasChildren

\* a directory that has a child is about to be deleted while a create of the
\* same directory is in flight
C26_Witness ==
  /\ <<<<"a">>, <<"b">>>> \in DOMAIN tree
  /\ ops[2].kind = "deleteDirectory" /\ ops[2].pc = "_deleteDirectory"
  /\ ops[1].kind \in Creates /\ ops[1].path = <<"/", "a">> /\ ops[1].pc # "done"

\* the operations that check their path through getInfo before anything else
PreChecked == {"getInfo", "list", "deleteDirectory", "getAsset", "updateAsset",
               "updateAssetInfo", "deleteAsset"}

\* C27: an operation that checks its path through getInfo, and to which the
\* existence primitive of the store reported an error for that path, reports
\* that error to its caller and no other
C27_BackendErrorPassed ==
  \A s \in Slots :
    LET o == ops[s]
    IN  o.kind \in PreChecked /\ o.pc = "done"
          /\ o.storeErr # NoErr /\ o.storeErrAt = "pre" =>
          o.fate = "delivered" /\ o.out.err = o.storeErr

\* C28: a getAsset for which the store found the asset and then failed to
\* open its stream reports the error of the store through its callback,
\* without a stream and without throwing, has emitted no event and has left
\* no throttle record for the read
C28_OpenFailureReported ==
  \A s \in Slots :
    LET o == ops[s]
    IN  o.kind = "getAsset" /\ o.pc = "done"
          /\ o.storeErr # NoErr /\ o.storeErrAt = "store" =>
          /\ o.fate = "delivered"
          /\ o.out.err = o.storeErr /\ o.out.kind # "stream"
          /\ o.events = <<>>
          /\ <<o.path, TRANSFER_TYPE_READ>> \notin DOMAIN lastEmit

\* the record with the check-out fields the patch names set to its values
CheckedOutAs(r, patch) ==
  [r EXCEPT !.checkedOut = IF "checkedOut" \in DOMAIN patch THEN patch.checkedOut ELSE @,
            !.checkedOutBy = IF "checkedOutBy" \in DOMAIN patch THEN patch.checkedOutBy
                             ELSE @]

\* C29: a step of an updateAssetInfo whose patch names check-out fields only
\* changes nothing in the store but these fields of the asset at its path
\* (its content, its other fields and every other node stay as they are), and
\* when the operation reports success its callback has received the info the
\* store now holds for the path: the info the asset had, with the patched
\* fields at their new values
C29_UpdateAssetInfoFrame ==
  [][\A s \in Slots :
       LET o == ops[s]
           o2 == ops'[s]
           key == Names(o.path)
       IN  o.kind = "updateAssetInfo" /\ o2 # o /\ o2.kind = o.kind
             /\ DOMAIN o.patch \subseteq {"checkedOut", "checkedOutBy"} =>
             /\ DOMAIN tree' = DOMAIN tree
             /\ \A k \in DOMAIN tree :
                  tree'[k] = IF k = key /\ tree'[k] # tree[k]
                             THEN CheckedOutAs(tree[k], o.patch) ELSE tree[k]
             /\ o2.pc = "done" /\ o2.fate = "delivered" /\ o2.out.err = NoErr =>
                  /\ o2.out.kind = "info"
                  /\ o2.out.info = CheckedOutAs(o.snap.info, o.patch)
                  /\ o2.out.info = _getInfo(tree', o.path).info]_vars

\* an asset that has content and was not checked out has been checked out
C29_Witness ==
  \E s \in Slots :
    /\ ops[s].kind = "updateAssetInfo" /\ ops[s].pc = "done" /\ ops[s].fate = "delivered"
    /\ ops[s].out.err = NoErr /\ ops[s].out.info.checkedOut /\ ops[s].out.info.checkedOutBy = "u"
    /\ ~ops[s].snap.info.checkedOut /\ ops[s].snap.info.size > 0

\* the position of the last separator of p is i
LastSepAt(p, i) ==
  /\ i \in 1..Len(p)
  /\ p[i] = sep
  /\ \A j \in (i + 1)..Len(p) : p[j] # sep

NoSep(p) == \A i \in 1..Len(p) : p[i] # sep

\* C30: getParentPath(p) is null when p has no separator, the separator when
\* the last separator of p is its first character, and otherwise what comes
\* before the last separator; getPathName(p) is what comes after the last
\* separator, or p when it has none; isRoot(p) is true exactly when p is the
\* separator alone
C30_PathUtilities ==
  /\ answer.fn = "getParentPath" =>
       /\ NoSep(probe) => answer.path = Null
       /\ \A i \in 1..Len(probe) :
            LastSepAt(probe, i) =>
              answer.path = IF i = 1 THEN <<sep>> ELSE SubSeq(probe, 1, i - 1)
  /\ answer.fn = "getPathName" =>
       /\ NoSep(probe) => answer.path = probe
       /\ \A i \in 1..Len(probe) :
            LastSepAt(probe, i) => answer.path = SubSeq(probe, i + 1, Len(probe))
  /\ answer.fn = "isRoot" => (answer.flag <=> probe = <<sep>>)

\* the parent of a child of the root is the separator
C30_Witness ==
  /\ probe = <<sep, "a", "b">>
  /\ answer.fn = "getParentPath"
  /\ answer.path = <<sep>>

\* the calls of the history that name the id
CallsOf(id) == SelectSeq(log, LAMBDA c : c[2] = id)

\* C31: after any calls of subscribe and unsubscribe on a new repository,
\* isSubscribed(id) is true exactly when the last call that names id is a
\* subscribe; it is false for every id for which no call was made
C31_SubscribedIffLastSubscribe ==
  \A id \in CallerIds :
    isSubscribed(subscribers, id) <=>
      (CallsOf(id) # <<>> /\ CallsOf(id)[Len(CallsOf(id))][1] = "subscribe")

\* the chunks a transfer carries
ChunksOf(o) ==
  IF o.kind # "getAsset" THEN o.content
  ELSE IF Names(o.path) \in DOMAIN tree THEN tree[Names(o.path)].content
  ELSE <<>>

C37_NoStaleThrottleAfterFailure ==
  \A s \in Slots :
    LET o == ops[s]
    IN  o.kind \in {"createAsset", "updateAsset"} /\ o.phase = "post"
          /\ o.storeErrAt # "stream"
          /\ last.failed /\ last.kind = o.kind /\ last.path = o.path =>
          /\ o.events # <<>>
          /\ o.events[1].read = 0
          /\ o.events[Len(o.events)].read = Len(Bytes(o.content))

\* C34: while a createAsset of P holds its write stream and the store has not
\* signalled finish, P does not exist; the step in which the store finishes
\* puts P into the tree as an asset whose size is the number of bytes that
\* were written, all of the given content
C34_InvisibleUntilCommit ==
  [][\A s \in Slots :
       LET o == ops[s]
       IN  o.kind = "createAsset" /\ o.pc = "transfer" =>
             /\ _getEntity(tree, o.path).err # NoErr
             /\ ops'[s].pc = "transfer" => _getEntity(tree', o.path).err # NoErr
             /\ ops'[s].pc # "transfer" /\ _getEntity(tree', o.path).err = NoErr =>
                   /\ _getInfo(tree', o.path).info.type = ASSET_TYPE
                   /\ _getInfo(tree', o.path).info.size = Len(Bytes(o.written))
                   /\ Bytes(o.written) = Bytes(o.content)]_vars

\* a createAsset of several chunks has been committed: the asset is there
\* with all of them
C34_Witness ==
  \E s \in Slots :
    /\ ops[s].kind = "createAsset" /\ ops[s].phase = "post" /\ ops[s].changed
    /\ Len(ops[s].content) >= 2
    /\ _getEntity(tree, ops[s].path).err = NoErr
    /\ _getInfo(tree, ops[s].path).info.size = Len(Bytes(ops[s].content))

\* C35: a node that exists stays in the tree with its type and its content
\* through every step, unless the step is taken by an updateAsset, an
\* updateAssetInfo or a delete whose path names the node or one of its
\* ancestors; in particular a create that validated its path before the node
\* was there does not replace it
C35_NeverSilentlyReplaced ==
  [][\A k \in DOMAIN tree :
       \/ /\ k \in DOMAIN tree'
          /\ tree'[k].type = tree[k].type
          /\ tree'[k].content = tree[k].content
       \/ \E s \in Slots :
            /\ ops'[s].pc # ops[s].pc
            /\ ops[s].kind \in {"updateAsset", "updateAssetInfo", "deleteDirectory",
                                 "deleteAsset"}
            /\ IsPrefix(Names(ops[s].path), k)]_vars

\* C36: within one transfer no two events in a row carry the same read and
\* rate; when the last event already carries the bytes read and the rate the
\* transfer ends with, the forced end event is not emitted; and a transfer of
\* one chunk that arrives more than EMIT_DELAY after the start event has then
\* emitted exactly (read 0, rate 0) and (read N, rate >= 1)
C36_NoRepeatedEvent ==
  [][\A s \in Slots :
       LET o == ops[s]
           o2 == ops'[s]
           moving == o.pc \in {"transfer", "reading"}
       IN  o.kind \in Transfers =>
             /\ \A i \in 1..(Len(o2.events) - 1) : o2.events[i] # o2.events[i + 1]
             /\ moving /\ o2.pc # o.pc /\ o.events # <<>>
                  /\ o.events[Len(o.events)].read = o.totalRead
                  /\ o.events[Len(o.events)].rate = o.rate => o2.events = o.events
             /\ moving /\ Len(ChunksOf(o)) = 1 /\ o.remaining # <<>> /\ o2.remaining = <<>>
                  /\ Len(o.events) = 1 /\ now - o.eventAt > EMIT_DELAY =>
                  /\ Len(o2.events) = 2
                  /\ o2.events[1] = Progress(TypeOfTransfer(o), 0, 0)
                  /\ o2.events[2].read = TransferSize(o)
                  /\ o2.events[2].rate >= 1
                  /\ o2.rate = o2.events[2].rate]_vars

\* a createAsset of one chunk that came after the window is over, with the
\* two events it emitted
C36_Witness ==
  \E s \in Slots :
    /\ ops[s].kind = "createAsset" /\ ops[s].phase = "post" /\ Len(ops[s].content) = 1
    /\ Len(ops[s].events) = 2 /\ ops[s].events[2].read = 1 /\ ops[s].events[2].rate = 1
    /\ ops[s].changed

\* C38: when a getAsset ends while another getAsset of the same path is
\* reading, the one that ends has emitted its own start event (read = 0)
\* first and its own end event (read = the bytes it read) last, and the
\* record that throttles the events of the other is still there
C38_OverlappingReads ==
  [][\A s \in Slots : \A t \in Slots \ {s} :
       LET o == ops[s]
           o2 == ops'[s]
           p == ops[t]
           key == Key(o.path, TRANSFER_TYPE_READ)
       IN  /\ o.kind = "getAsset" /\ p.kind = "getAsset" /\ o.path = p.path
           /\ o.pc = "reading" /\ p.pc = "reading" /\ o2.pc = "done"
           =>
           /\ o2.events # <<>>
           /\ o2.events[1].read = 0
           /\ o2.events[Len(o2.events)].read = Len(Bytes(o2.out.data))
           /\ key \in DOMAIN lastEmit => key \in DOMAIN lastEmit']_vars

\* C39: after every step each node other than the root reports as its name
\* the last name of its path, and a node that stays in the tree reports the
\* type it had, unless the step is the store call of a create or a delete
\* that put another node at its path; an updateAssetInfo whose patch names
\* name or type changes neither
C39_NameAndTypeKept ==
  [][\A k \in DOMAIN tree' :
       /\ k # <<>> => _infoFromEntity(tree'[k]).name = k[Len(k)]
       /\ k \in DOMAIN tree /\ _infoFromEntity(tree'[k]).type # _infoFromEntity(tree[k]).type =>
            \E s \in Slots : /\ ops[s].kind \in Replacers
                              /\ ops'[s].pc # ops[s].pc]_vars

\* sep + s1 + sep + ... + sn
RECURSIVE Chain(_)
Chain(segs) == IF segs = <<>> THEN <<>> ELSE <<sep>> \o Head(segs) \o Chain(Tail(segs))

\* C40 as stated: for non-empty segments without a separator, joinPath(sep,
\* s1, ..., sn) is sep + s1 + sep + ... + sn, its getPathName is sn, and
\* joining its parent path and its path name gives it back
C40_RoundTrip ==
  /\ answer.fn = "joinPath" =>
       /\ answer.path = Chain(probe)
       /\ getPathName(answer.path) = probe[Len(probe)]
  /\ answer.fn = "rejoin" => answer.path = Chain(probe)

\* a segment that Path.join reads as it is: not ".", not "..", no backslash
Plain(seg) == seg # <<".">> /\ seg # <<".", ".">> /\ \A i \in 1..Len(seg) : seg[i] # "\\"

\* C40: the same for segments that are neither "." nor ".." and hold no
\* backslash
C40_RoundTripPlain ==
  (\A i \in 1..Len(probe) : Plain(probe[i])) =>
    /\ answer.fn = "joinPath" =>
         /\ answer.path = Chain(probe)
         /\ getPathName(answer.path) = probe[Len(probe)]
    /\ answer.fn = "rejoin" => answer.path = Chain(probe)

\* two plain segments, one of them with a dot in it, joined and joined again
C40_Witness ==
  /\ probe = << <<"a">>, <<".", "a">> >>
  /\ answer.fn = "rejoin"
  /\ answer.path = <<sep, "a", sep, ".", "a">>

====
